---- MODULE Spec2Model ----
(***************************************************************************)
(* Model of the opx-control-plane multi-agent orchestrator:                *)
(*   - the agent node wrapper        (src/langgraph/agent_node.py)         *)
(*   - the consensus node            (src/langgraph/consensus_node.py)     *)
(*   - the cost guardian node        (infra/phase6/lambda/...)             *)
(*   - the graph wiring and handler  (graph.py, lambda_handler.py)         *)
(*   - the DynamoDB checkpointer     (infra/phase6/lambda/checkpointing.py)*)
(*                                                                         *)
(* Units.  Confidences are integers in hundredths (0..100), money is in    *)
(* micro-dollars (the code rounds to 6 decimals), agent weights are in     *)
(* tenths.  Wall-clock timestamps and durations are left out of every      *)
(* record: they never influence control flow.  session_id, execution_id    *)
(* and timestamp, which the code may synthesize from parts, are tuples of  *)
(* their parts; the empty string is the empty tuple.                       *)
(***************************************************************************)
EXTENDS Integers, Sequences, FiniteSets, TLC

\* ------------------------------------------------------------------------
\* Bounds of the model
\* ------------------------------------------------------------------------
\* handler / graph invocations on the one session
MaxInvocations == 2
\* agents whose endpoint deviates from the plain successful one
MaxFaulty == 1
\* checkpoint items two concurrent invokers write to the one session
MaxItems == 12

\* ------------------------------------------------------------------------
\* Generic helpers
\* ------------------------------------------------------------------------
Null == [null |-> TRUE]

EmptyMap == [x \in {} |-> 0]

\* dict.get(k, d)
Get(f, k, d) == IF k \in DOMAIN f THEN f[k] ELSE d

\* {**f, k: v}
Put(f, k, v) == [x \in (DOMAIN f) \cup {k} |-> IF x = k THEN v ELSE f[x]]

RECURSIVE SumSeq(_)
SumSeq(s) == IF s = << >> THEN 0 ELSE Head(s) + SumSeq(Tail(s))

RECURSIVE SelectSeqIdx(_, _, _)
SelectSeqIdx(s, i, keep) ==
    IF i > Len(s) THEN << >>
    ELSE (IF s[i] \in keep THEN <<s[i]>> ELSE << >>) \o SelectSeqIdx(s, i + 1, keep)

RECURSIVE ISqrtBetween(_, _, _)
ISqrtBetween(x, lo, hi) ==
    IF lo >= hi THEN lo
    ELSE LET mid == (lo + hi + 1) \div 2
         IN  IF mid * mid <= x THEN ISqrtBetween(x, mid, hi)
             ELSE ISqrtBetween(x, lo, mid - 1)

\* floor(sqrt(x)) for 0 <= x < 2^30
ISqrt(x) == ISqrtBetween(x, 0, 32767)

\* ------------------------------------------------------------------------
\* Topology (graph.py, create_graph)
\* ------------------------------------------------------------------------
AgentSeq == << "signal-intelligence", "historical-pattern", "change-intelligence",
               "risk-blast-radius", "knowledge-rag", "response-strategy" >>

AgentIds == { AgentSeq[i] : i \in 1..Len(AgentSeq) }

\* entry point followed by the linear edges; index Len(NodeSeq)+1 is END
NodeSeq == AgentSeq \o << "consensus-node", "cost-guardian-node", "TERMINAL" >>

END == Len(NodeSeq) + 1

\* ------------------------------------------------------------------------
\* agent_node.py: constants
\* ------------------------------------------------------------------------
MAX_RETRIES == 2

RETRYABLE_ERROR_CODES ==
    { "ThrottlingException", "TooManyRequestsException",
      "ServiceUnavailableException", "InternalServerException",
      "TimeoutException", "RATE_LIMIT_EXCEEDED", "BEDROCK_THROTTLING" }

ERROR_CODE_MAPPING ==
    [ ThrottlingException         |-> "BEDROCK_THROTTLING",
      ServiceUnavailableException |-> "DATA_SOURCE_UNAVAILABLE",
      ValidationException         |-> "INVALID_INPUT",
      AccessDeniedException       |-> "INTERNAL_ERROR",
      ResourceNotFoundException   |-> "INTERNAL_ERROR",
      InternalServerException     |-> "INTERNAL_ERROR",
      TooManyRequestsException    |-> "RATE_LIMIT_EXCEEDED",
      TimeoutError                |-> "TIMEOUT",
      ValidationError             |-> "SCHEMA_VALIDATION_FAILED",
      OutputValidationError       |-> "OUTPUT_VALIDATION_FAILED",
      Exception                   |-> "UNKNOWN_ERROR" ]

\* USD per 1K tokens is 0.003 / 0.015, i.e. 3 / 15 micro-dollars per token
PRICE_INPUT == 3
PRICE_OUTPUT == 15

is_retryable_error(error_code) == error_code \in RETRYABLE_ERROR_CODES

\* exc is the ClientError code, or the Python class name of any other exception
map_exception_to_error_code(exc) == Get(ERROR_CODE_MAPPING, exc, "UNKNOWN_ERROR")

\* variant of extract_cost_metadata: a failure is never charged
extract_cost_metadata_free(bedrock_response) ==
    IF bedrock_response = Null \/ bedrock_response.guardrailAction = "BLOCKED"
       \/ bedrock_response.text # "JSON"
    THEN [inputTokens |-> 0, outputTokens |-> 0, estimatedCost |-> 0, model |-> "N/A"]
    ELSE [inputTokens   |-> bedrock_response.inputTokens,
          outputTokens  |-> bedrock_response.outputTokens,
          estimatedCost |-> bedrock_response.inputTokens * PRICE_INPUT
                            + bedrock_response.outputTokens * PRICE_OUTPUT,
          model         |-> bedrock_response.modelId]

\* bedrock_response is Null when no response was received
extract_cost_metadata(bedrock_response) ==
    IF bedrock_response = Null
    THEN [inputTokens |-> 0, outputTokens |-> 0, estimatedCost |-> 0, model |-> "N/A"]
    ELSE [inputTokens   |-> bedrock_response.inputTokens,
          outputTokens  |-> bedrock_response.outputTokens,
          estimatedCost |-> bedrock_response.inputTokens * PRICE_INPUT
                            + bedrock_response.outputTokens * PRICE_OUTPUT,
          model         |-> bedrock_response.modelId]

\* raw_output["confidence"] in millionths: the hundredths every other part of
\* the model works with, plus the optional part below one hundredth
RawConfidence(raw_output) ==
    raw_output.confidence * 10000 + Get(raw_output, "confidence_rest", 0)

RECURSIVE Pow10(_)
Pow10(n) == IF n = 0 THEN 1 ELSE 10 * Pow10(n - 1)

\* round(x, ndigits) for x >= 0 in millionths and ndigits <= 6: the result in
\* units of 10^-ndigits, a tie going to the even neighbour
round(x, ndigits) ==
    LET unit == Pow10(6 - ndigits)
        q == x \div unit
        r == x % unit
    IN  IF 2 * r > unit \/ (2 * r = unit /\ q % 2 = 1) THEN q + 1 ELSE q

\* variant of the hash: the canonical data includes the session id
compute_deterministic_hash_session(agent_input, findings, confidence) ==
    << agent_input.incident_id, agent_input.evidence_bundle,
       agent_input.execution_id, agent_input.session_id, findings, round(confidence, 4) >>

\* SHA-256 over the canonical rendering, modelled by the canonical data itself
\* (a hash value is a tuple; the literal "FAILURE" is the 1-tuple <<"FAILURE">>);
\* confidence is in millionths
compute_deterministic_hash(agent_input, findings, confidence) ==
    << agent_input.incident_id, agent_input.evidence_bundle,
       agent_input.execution_id, findings, round(confidence, 4) >>

\* TRUE when validate_agent_input raises ValueError
validate_agent_input_raises(agent_input) ==
    \/ agent_input.incident_id = ""
    \/ agent_input.evidence_bundle = EmptyMap
    \/ agent_input.timestamp = << >>
    \/ agent_input.execution_id = << >>
    \/ agent_input.session_id = << >>

ValidStatuses == {"SUCCESS", "PARTIAL", "TIMEOUT", "FAILURE"}

\* the texts that contain "HYPOTHESIS_ONLY_NOT_AUTHORITATIVE"
DisclaimerTexts ==
    { "HYPOTHESIS_ONLY_NOT_AUTHORITATIVE", "Advisory. HYPOTHESIS_ONLY_NOT_AUTHORITATIVE" }

\* TRUE when validate_agent_output raises ValueError; raw_output is the parsed JSON
validate_agent_output_raises(raw_output) ==
    \/ {"confidence", "findings", "disclaimer", "status"} \ DOMAIN raw_output # {}
    \/ ~(RawConfidence(raw_output) >= 0 /\ RawConfidence(raw_output) <= 1000000)
    \/ raw_output.status \notin ValidStatuses
    \/ raw_output.disclaimer \notin DisclaimerTexts
    \/ raw_output.findings = EmptyMap

\* variant of the trace update: the new entry is put in front
add_execution_trace_front(state, node_id, status, metadata) ==
    [state EXCEPT !.execution_trace =
        << [node_id |-> node_id, status |-> status, metadata |-> metadata] >> \o @]

add_execution_trace(state, node_id, status, metadata) ==
    [state EXCEPT !.execution_trace =
        Append(@, [node_id |-> node_id, status |-> status, metadata |-> metadata])]

\* variant of the counter update: the dictionary is rebuilt with the one entry
increment_retry_count_only(state, agent_id) ==
    [state EXCEPT !.retry_count =
        Put(EmptyMap, agent_id, Get(state.retry_count, agent_id, 0) + 1)]

\* state["retry_count"] with the entry of agent_id one higher
increment_retry_count(state, agent_id) ==
    [state EXCEPT !.retry_count = Put(@, agent_id, Get(@, agent_id, 0) + 1)]

\* variant of the failure hypothesis: it carries the confidence 0.5
create_failure_hypothesis_half(agent_id, execution_id, error_code, retryable, retry_attempt, cost) ==
    [ agent_id     |-> agent_id,
      execution_id |-> execution_id,
      status       |-> "FAILURE",
      confidence   |-> 50,
      disclaimer   |-> "HYPOTHESIS_ONLY_NOT_AUTHORITATIVE",
      findings     |-> [error |-> error_code],
      citations    |-> << >>,
      cost         |-> cost,
      error        |-> [code |-> error_code, retryable |-> retryable,
                        retry_attempt |-> retry_attempt],
      deterministicHash |-> << "FAILURE" >> ]

create_failure_hypothesis(agent_id, execution_id, error_code, retryable, retry_attempt, cost) ==
    [ agent_id     |-> agent_id,
      execution_id |-> execution_id,
      status       |-> "FAILURE",
      confidence   |-> 0,
      disclaimer   |-> "HYPOTHESIS_ONLY_NOT_AUTHORITATIVE",
      findings     |-> [error |-> error_code],
      citations    |-> << >>,
      cost         |-> cost,
      error        |-> [code |-> error_code, retryable |-> retryable,
                        retry_attempt |-> retry_attempt],
      deterministicHash |-> << "FAILURE" >> ]

\* ------------------------------------------------------------------------
\* agent_node.py: the node wrapper
\* ------------------------------------------------------------------------
\* STEP 5.5, the argument list of the call of emit_trace_event_async: input_cost
\* divides by cost["inputTokens"] + cost["outputTokens"] (the defaults of the two
\* .get calls never apply, extract_cost_metadata sets both keys)
trace_arguments_raise(cost) ==
    IF cost.inputTokens + cost.outputTokens = 0 THEN "ZeroDivisionError" ELSE "none"

\* trace_emitter.py: emit_trace_event_async builds the event and calls
\* eventbridge.put_events inside one try/except, so nothing leaves it; events is
\* what reaches the trace stream
emit_trace_event_async(trace_event, observability) ==
    [ raised |-> "none",
      events |-> IF observability = "down" THEN << >> ELSE << trace_event >> ]

\* the trace event of one successful invocation
trace_event_of(agent_input, agent_id, call, retry_attempt) ==
    LET cost == extract_cost_metadata(call.response)
    IN  [ agentId     |-> agent_id,
          incidentId  |-> agent_input.incident_id,
          executionId |-> agent_input.execution_id,
          prompt      |-> [tokens |-> cost.inputTokens],
          response    |-> [tokens |-> cost.outputTokens,
                           finishReason |-> call.response.body.status],
          cost        |-> [total |-> cost.estimatedCost],
          metadata    |-> [retryCount |-> retry_attempt] ]

\* the exception that reaches the except clause of STEP 5.5: the one the
\* evaluation of the arguments raises, else the one the emitter raises
emit_trace_raises(call) ==
    IF trace_arguments_raise(extract_cost_metadata(call.response)) # "none"
    THEN trace_arguments_raise(extract_cost_metadata(call.response))
    ELSE "none"

\* STEP 5.5: try: emit_trace_event_async(...) except Exception: print a warning.
\* The result is the exception that leaves the step.
emit_trace_guarded(call) ==
    IF emit_trace_raises(call) # "none" THEN "none" ELSE "none"

\* STEP 5.5: the events the step delivers to the trace stream
emit_trace(agent_input, agent_id, call, retry_attempt) ==
    IF emit_trace_raises(call) # "none" THEN << >>
    ELSE emit_trace_event_async(trace_event_of(agent_input, agent_id, call, retry_attempt),
                                call.observability).events

\* guardrail_handler.py: what the body of the coroutine handle_guardrail_violation
\* delivers to the violations table: one record, none when put_item fails
handle_guardrail_violation(agent_id, violation, observability) ==
    IF observability = "down" THEN << >>
    ELSE << [ agentId |-> agent_id,
              violation |-> [ type |-> Get(violation, "type", "UNKNOWN"),
                              action |-> Get(violation, "action", "BLOCK"),
                              confidence |-> Get(violation, "confidence", 100) ],
              blocked |-> (Get(violation, "action", "BLOCK") = "BLOCK") ] >>

\* handle_guardrail_violation is declared `async def`; agent_node calls it as a
\* plain function and drops the coroutine object, so the body never runs
call_without_await(delivered_when_awaited) == << >>

\* STEP 3.5 and the head of the except clause: the violation records one
\* invocation of the node delivers.  A response without the key
\* guardrailAction is modelled by guardrailAction = "NONE".
guardrail_log(agent_input, agent_id, call) ==
    IF validate_agent_input_raises(agent_input) THEN << >>
    ELSE IF call.raises = "GuardrailInterventionException"
    THEN call_without_await(
             handle_guardrail_violation(agent_id,
                 [type |-> "UNKNOWN", action |-> "BLOCK", confidence |-> 100],
                 call.observability))
    ELSE IF call.raises = "none" /\ call.response.guardrailAction = "BLOCKED"
    THEN call_without_await(
             handle_guardrail_violation(agent_id,
                 [ type |-> Get(call.response, "violationType", "UNKNOWN"),
                   action |-> "BLOCK",
                   confidence |-> Get(call.response, "confidence", 100) ],
                 call.observability))
    ELSE << >>

\* What the body of the try block does for one remote call.  call.raises is
\* the exception invoke_agent raises ("none" when it returns call.response).
\* response.text is "EMPTY", "NONJSON" or "JSON"; response.body is the parsed
\* JSON object when text = "JSON".
\* The result names the exception that reaches the except clause ("none" on
\* success) and the response bound to bedrock_response at that point.
agent_attempt(agent_input, call) ==
    IF validate_agent_input_raises(agent_input)
    THEN [exc |-> "ValueError", response |-> Null]
    ELSE IF call.raises # "none"
    THEN [exc |-> call.raises, response |-> Null]
    ELSE IF call.response.guardrailAction = "BLOCKED"
    THEN [exc |-> "ValueError", response |-> call.response]
    ELSE IF call.response.text \in {"EMPTY", "NONJSON"}
    THEN [exc |-> "ValueError", response |-> call.response]
    ELSE IF validate_agent_output_raises(call.response.body)
    THEN [exc |-> "ValueError", response |-> call.response]
    ELSE [exc |-> emit_trace_guarded(call), response |-> call.response]

\* variant of the success path: the node charges its own cost to the budget
agent_success_charges(state, agent_id, response) ==
    LET raw_output == response.body
        agent_output ==
            [ agent_id     |-> agent_id,
              execution_id |-> state.agent_input.execution_id,
              status       |-> raw_output.status,
              confidence   |-> raw_output.confidence,
              reasoning    |-> Get(raw_output, "reasoning", ""),
              disclaimer   |-> raw_output.disclaimer,
              findings     |-> raw_output.findings,
              citations    |-> Get(raw_output, "citations", << >>),
              cost         |-> extract_cost_metadata(response),
              error        |-> Get(raw_output, "error", Null),
              deterministicHash |->
                  compute_deterministic_hash(state.agent_input, raw_output.findings,
                                             RawConfidence(raw_output)) ]
    IN  add_execution_trace(
            [state EXCEPT !.hypotheses = Put(@, agent_id, agent_output),
                          !.budget_remaining = @ - agent_output.cost.estimatedCost],
            agent_id, "COMPLETED",
            [confidence |-> agent_output.confidence, status |-> agent_output.status])

\* STEP 6 and 7 of agent_node: the success path
agent_success(state, agent_id, response) ==
    LET raw_output == response.body
        agent_output ==
            [ agent_id     |-> agent_id,
              execution_id |-> state.agent_input.execution_id,
              status       |-> raw_output.status,
              confidence   |-> raw_output.confidence,
              reasoning    |-> Get(raw_output, "reasoning", ""),
              disclaimer   |-> raw_output.disclaimer,
              findings     |-> raw_output.findings,
              citations    |-> Get(raw_output, "citations", << >>),
              cost         |-> extract_cost_metadata(response),
              error        |-> Get(raw_output, "error", Null),
              deterministicHash |->
                  compute_deterministic_hash(state.agent_input, raw_output.findings,
                                             RawConfidence(raw_output)) ]
    IN  add_execution_trace(
            [state EXCEPT !.hypotheses = Put(@, agent_id, agent_output)],
            agent_id, "COMPLETED",
            [confidence |-> agent_output.confidence, status |-> agent_output.status])

\* variant of the retry path: the retry count is not incremented
agent_retry_no_count(state, agent_id, error_code, retry_attempt) ==
    add_execution_trace(state, agent_id, "RETRYING",
        [error_code |-> error_code, retry_attempt |-> retry_attempt])

\* RETRY PATH of agent_node
agent_retry(state, agent_id, error_code, retry_attempt) ==
    increment_retry_count(
        add_execution_trace(state, agent_id, "RETRYING",
            [error_code |-> error_code, retry_attempt |-> retry_attempt]),
        agent_id)

\* variant of the failure path: the error is recorded, the slot is not written
agent_failure_no_slot(state, agent_id, error_code, retryable, retry_attempt, response) ==
    add_execution_trace(
        [state EXCEPT !.errors = Append(@,
            [ agent_id |-> agent_id, error_code |-> error_code,
              retryable |-> retryable, retry_attempt |-> retry_attempt ])],
        agent_id, "FAILED",
        [error_code |-> error_code, retry_attempt |-> retry_attempt])

\* NON-RETRYABLE OR MAX RETRIES EXCEEDED path of agent_node
agent_failure(state, agent_id, error_code, retryable, retry_attempt, response) ==
    LET cost == extract_cost_metadata(response)
        structured_error ==
            [ agent_id |-> agent_id, error_code |-> error_code,
              retryable |-> retryable, retry_attempt |-> retry_attempt ]
        failure_output ==
            create_failure_hypothesis(agent_id, state.agent_input.execution_id,
                                      error_code, retryable, retry_attempt, cost)
    IN  add_execution_trace(
            [state EXCEPT !.hypotheses = Put(@, agent_id, failure_output),
                          !.errors = Append(@, structured_error)],
            agent_id, "FAILED",
            [error_code |-> error_code, retry_attempt |-> retry_attempt])

\* The retry decision of the except clause
retry_eligible(error_code, retry_attempt) ==
    is_retryable_error(error_code) /\ retry_attempt < MAX_RETRIES

\* agent_node(state) for the agent agent_id.  configured is FALSE when the
\* Bedrock agent id or alias id is empty.  The result is the exception the
\* node propagates ("none" when it returns), the state it returns, the
\* guardrail violation records it delivered and the events it delivered to the
\* trace stream.
agent_node(state, agent_id, configured, call) ==
    LET retry_attempt == Get(state.retry_count, agent_id, 0)
        started == add_execution_trace(state, agent_id, "STARTED",
                                       [retry_attempt |-> retry_attempt])
        attempt == agent_attempt(state.agent_input, call)
        error_code == map_exception_to_error_code(attempt.exc)
        violations == guardrail_log(state.agent_input, agent_id, call)
    IN  IF ~configured
        THEN [raised |-> "RuntimeError", state |-> state, violations |-> << >>,
              traces |-> << >>]
        ELSE IF attempt.exc = "none"
        THEN [raised |-> "none", violations |-> violations,
              traces |-> emit_trace(state.agent_input, agent_id, call, retry_attempt),
              state |-> agent_success(started, agent_id, attempt.response)]
        ELSE IF retry_eligible(error_code, retry_attempt)
        THEN [raised |-> "none", violations |-> violations, traces |-> << >>,
              state |-> agent_retry(started, agent_id, error_code, retry_attempt)]
        ELSE [raised |-> "none", violations |-> violations, traces |-> << >>,
              state |-> agent_failure(started, agent_id, error_code,
                                      is_retryable_error(error_code), retry_attempt,
                                      attempt.response)]

\* ------------------------------------------------------------------------
\* consensus_node.py
\* ------------------------------------------------------------------------
\* weights in tenths
AGENT_WEIGHTS ==
    [ x \in AgentIds |->
        CASE x = "signal-intelligence" -> 10
          [] x = "historical-pattern"  -> 9
          [] x = "change-intelligence" -> 9
          [] x = "risk-blast-radius"   -> 8
          [] x = "knowledge-rag"       -> 7
          [] x = "response-strategy"   -> 6 ]

DEFAULT_WEIGHT == 5

\* 0.3 in hundredths
CONFIDENCE_DIVERGENCE_THRESHOLD == 30

\* hypotheses.items() / .values(): the agents in insertion order, which is the
\* order of the topology
HypKeys(hypotheses) == SelectSeqIdx(AgentSeq, 1, DOMAIN hypotheses)

\* variant of the weighted average: FAILURE outputs are left out
aggregate_confidence_successes(hypotheses, agent_weights) ==
    LET ks == SelectSeq(HypKeys(hypotheses), LAMBDA a : hypotheses[a].status # "FAILURE")
        wc == [i \in 1..Len(ks) |->
                 hypotheses[ks[i]].confidence * Get(agent_weights, ks[i], DEFAULT_WEIGHT)]
        ws == [i \in 1..Len(ks) |-> Get(agent_weights, ks[i], DEFAULT_WEIGHT)]
    IN  IF ks = << >> THEN [num |-> 0, den |-> 1]
        ELSE IF SumSeq(ws) = 0 THEN [num |-> 0, den |-> 1]
        ELSE [num |-> SumSeq(wc), den |-> SumSeq(ws)]

\* the rational number num/den (hundredths); den > 0
aggregate_confidence(hypotheses, agent_weights) ==
    LET ks == HypKeys(hypotheses)
        wc == [i \in 1..Len(ks) |->
                 hypotheses[ks[i]].confidence * Get(agent_weights, ks[i], DEFAULT_WEIGHT)]
        ws == [i \in 1..Len(ks) |-> Get(agent_weights, ks[i], DEFAULT_WEIGHT)]
    IN  IF ks = << >> THEN [num |-> 0, den |-> 1]
        ELSE IF SumSeq(ws) = 0 THEN [num |-> 0, den |-> 1]
        ELSE [num |-> SumSeq(wc), den |-> SumSeq(ws)]

\* binary64 arithmetic of mean, variance and std_dev on equal confidences: the
\* pairs << n, c >> (c in hundredths) for which n outputs of confidence c give
\* a computed std_dev that is not 0.0, because sum(confidences) / n is not c
BINARY64_DRIFT ==
    { << 3, c >> : c \in
        { 35, 36, 37, 38, 39, 40, 70, 72, 74, 76, 78, 80, 95, 97, 99 } }
    \cup
    { << 5, c >> : c \in
        { 42, 44, 46, 47, 49, 81, 83, 84, 87, 88, 91, 92, 94, 98 } }
    \cup
    { << 6, c >> : c \in
        { 35, 36, 37, 38, 39, 40, 47, 49, 51, 53, 55, 70, 72, 74, 76, 78,
          80, 81, 94, 95, 97, 98, 99 } }

\* in thousandths, rounded down: floor(1000 * max(0, min(1, 1 - std_dev / 0.5)))
compute_agreement_level(hypotheses) ==
    LET ks == HypKeys(hypotheses)
        n  == Len(ks)
        cs == [i \in 1..n |-> hypotheses[ks[i]].confidence]
        sq == [i \in 1..n |-> cs[i] * cs[i]]
        \* n^2 * variance
        V  == n * SumSeq(sq) - SumSeq(cs) * SumSeq(cs)
        \* 1000 * std_dev / 0.5 is sqrt(400 * V) / n, rounded up
        r  == ISqrt(400 * V)
        up == IF r * r = 400 * V /\ r % n = 0 THEN r \div n ELSE (r \div n) + 1
        level == 1000 - up
    IN  IF n < 2 THEN 1000
        ELSE IF V = 0
        THEN (IF << n, cs[1] >> \in BINARY64_DRIFT THEN 999 ELSE 1000)
        ELSE IF level < 0 THEN 0 ELSE IF level > 1000 THEN 1000 ELSE level

RECURSIVE RecEntriesFrom(_, _, _)
RecEntriesFrom(hypotheses, ks, i) ==
    IF i > Len(ks) THEN << >>
    ELSE LET output == hypotheses[ks[i]]
             recs == IF "recommendations" \in DOMAIN output.findings
                     THEN output.findings.recommendations ELSE << >>
             mine == IF output.status = "FAILURE" THEN << >>
                     ELSE [j \in 1..Len(recs) |->
                             [agent_id |-> ks[i], confidence |-> output.confidence,
                              rec |-> recs[j]]]
         IN  mine \o RecEntriesFrom(hypotheses, ks, i + 1)

\* every (agent_id, confidence, rec) of the non-FAILURE outputs, in dict order
RecEntries(hypotheses) == RecEntriesFrom(hypotheses, HypKeys(hypotheses), 1)

RECURSIVE TypesOf(_, _)
TypesOf(entries, seen) ==
    IF entries = << >> THEN << >>
    ELSE IF Head(entries).rec.type \in seen THEN TypesOf(Tail(entries), seen)
    ELSE <<Head(entries).rec.type>>
         \o TypesOf(Tail(entries), seen \cup {Head(entries).rec.type})

OfType(entries, t) == SelectSeq(entries, LAMBDA e : e.rec.type = t)

MaxConf(es) == CHOOSE m \in {es[i].confidence : i \in 1..Len(es)} :
                   \A i \in 1..Len(es) : es[i].confidence <= m

MinConf(es) == CHOOSE m \in {es[i].confidence : i \in 1..Len(es)} :
                   \A i \in 1..Len(es) : es[i].confidence >= m

\* next(aid for aid, conf, _ in es if conf == c)
FirstWithConf(es, c) ==
    es[CHOOSE i \in 1..Len(es) :
          es[i].confidence = c /\ \A j \in 1..(i - 1) : es[j].confidence # c]

Abs(x) == IF x < 0 THEN 0 - x ELSE x

RECURSIVE PairsFrom(_, _, _)
PairsFrom(n, i, j) ==
    IF i >= n THEN << >>
    ELSE IF j > n THEN PairsFrom(n, i + 1, i + 2)
    ELSE << <<i, j>> >> \o PairsFrom(n, i, j + 1)

detect_conflicts(hypotheses) ==
    LET entries == RecEntries(hypotheses)
        types == TypesOf(entries, {})
        pairs == PairsFrom(Len(types), 1, 2)
        diverging == SelectSeq(pairs, LAMBDA p :
            Abs(MaxConf(OfType(entries, types[p[1]]))
                - MaxConf(OfType(entries, types[p[2]]))) > CONFIDENCE_DIVERGENCE_THRESHOLD)
        cross == [k \in 1..Len(diverging) |->
            LET es1 == OfType(entries, types[diverging[k][1]])
                es2 == OfType(entries, types[diverging[k][2]])
            IN  [agents |-> << FirstWithConf(es1, MaxConf(es1)).agent_id,
                               FirstWithConf(es2, MaxConf(es2)).agent_id >>,
                 conflict_type |-> "ACTION_TYPE_DIVERGENCE"]]
        spread == SelectSeq(types, LAMBDA t :
            LET es == OfType(entries, t)
            IN  Len(es) >= 2 /\ MaxConf(es) - MinConf(es) > CONFIDENCE_DIVERGENCE_THRESHOLD)
        within == [k \in 1..Len(spread) |->
            LET es == OfType(entries, spread[k])
            IN  [agents |-> << FirstWithConf(es, MaxConf(es)).agent_id,
                               FirstWithConf(es, MinConf(es)).agent_id >>,
                 conflict_type |-> "CONFIDENCE_DIVERGENCE"]]
    IN  cross \o within

\* sorted(..., key=max confidence, reverse=True) is stable: insert t after
\* every type whose maximum is >= its own
RECURSIVE SortTypes(_, _)
SortTypes(entries, types) ==
    IF types = << >> THEN << >>
    ELSE LET rest == SortTypes(entries, SubSeq(types, 1, Len(types) - 1))
             t == types[Len(types)]
             m == MaxConf(OfType(entries, t))
             before == SelectSeq(rest, LAMBDA u : MaxConf(OfType(entries, u)) >= m)
             after == SelectSeq(rest, LAMBDA u : MaxConf(OfType(entries, u)) < m)
         IN  before \o <<t>> \o after

\* The recommendation text, as the sequence of its parts
synthesize_unified_recommendation(hypotheses, conflicts) ==
    LET ks == HypKeys(hypotheses)
        entries == SelectSeq(RecEntries(hypotheses),
                             LAMBDA e : "description" \in DOMAIN e.rec)
        sorted_types == SortTypes(entries, TypesOf(entries, {}))
        top == SubSeq(sorted_types, 1, IF Len(sorted_types) < 2 THEN Len(sorted_types) ELSE 2)
        n_total == Cardinality({a \in DOMAIN hypotheses : hypotheses[a].status # "FAILURE"})
        parts == [i \in 1..Len(top) |->
            LET es == OfType(entries, top[i])
                best == FirstWithConf(es, MaxConf(es))
            IN  [label |-> IF i = 1 THEN "PRIMARY" ELSE "ALTERNATIVE",
                 description |-> best.rec.description,
                 confidence |-> best.confidence,
                 n_agree |-> Len(es), n_total |-> n_total]]
    IN  IF \A a \in DOMAIN hypotheses : hypotheses[a].status = "FAILURE"
        THEN << [text |-> "Insufficient data for recommendation. All agents failed."] >>
        ELSE IF entries = << >>
        THEN << [text |-> "No actionable recommendations."] >>
        ELSE parts \o << [label |-> "CONFLICTS", count |-> Len(conflicts)] >>

\* descriptions that occur in the unified text
DescriptionsIn(unified) ==
    { unified[i].description :
        i \in { j \in 1..Len(unified) : "description" \in DOMAIN unified[j] } }

extract_minority_opinions(hypotheses, unified_recommendation) ==
    LET entries == SelectSeq(RecEntries(hypotheses), LAMBDA e :
                       /\ e.confidence > 50
                       /\ "description" \in DOMAIN e.rec
                       /\ e.rec.description \notin DescriptionsIn(unified_recommendation))
    IN  [i \in 1..Len(entries) |->
            [agent_id |-> entries[i].agent_id, description |-> entries[i].rec.description,
             confidence |-> entries[i].confidence]]

compute_quality_metrics(hypotheses) ==
    LET total_agents == Cardinality(DOMAIN hypotheses)
    IN  IF total_agents = 0
        THEN [ data_completeness |-> [num |-> 0, den |-> 1],
               citation_quality |-> [num |-> 0, den |-> 1],
               reasoning_coherence |-> 0 ]
        ELSE [ data_completeness |->
                 [num |-> Cardinality({a \in DOMAIN hypotheses :
                                          hypotheses[a].status = "SUCCESS"}),
                  den |-> total_agents],
               citation_quality |->
                 [num |-> Cardinality({a \in DOMAIN hypotheses :
                                          Len(hypotheses[a].citations) > 0}),
                  den |-> total_agents],
               reasoning_coherence |-> compute_agreement_level(hypotheses) ]

consensus_node(state) ==
    LET hypotheses == state.hypotheses
        aggregated_confidence == aggregate_confidence(hypotheses, AGENT_WEIGHTS)
        agreement_level == compute_agreement_level(hypotheses)
        conflicts == detect_conflicts(hypotheses)
        unified == synthesize_unified_recommendation(hypotheses, conflicts)
        consensus_result ==
            [ aggregated_confidence |-> aggregated_confidence,
              agreement_level |-> agreement_level,
              conflicts_detected |-> conflicts,
              unified_recommendation |-> unified,
              minority_opinions |-> extract_minority_opinions(hypotheses, unified),
              quality_metrics |-> compute_quality_metrics(hypotheses) ]
    IN  add_execution_trace([state EXCEPT !.consensus = consensus_result],
            "consensus", "COMPLETED",
            [aggregated_confidence |-> aggregated_confidence,
             agreement_level |-> agreement_level,
             conflicts_count |-> Len(conflicts)])

\* ------------------------------------------------------------------------
\* cost_guardian_node.py
\* ------------------------------------------------------------------------
INCIDENTS_PER_DAY == 10
DAYS_PER_MONTH == 30

aggregate_per_agent_costs(hypotheses) ==
    [ a \in DOMAIN hypotheses |->
        [ inputTokens  |-> hypotheses[a].cost.inputTokens,
          outputTokens |-> hypotheses[a].cost.outputTokens,
          cost         |-> hypotheses[a].cost.estimatedCost,
          model        |-> hypotheses[a].cost.model ] ]

calculate_total_cost(per_agent_costs) ==
    LET ks == SelectSeqIdx(AgentSeq, 1, DOMAIN per_agent_costs)
    IN  SumSeq([i \in 1..Len(ks) |-> per_agent_costs[ks[i]].cost])

calculate_budget_remaining(budget_remaining_before, total_cost) ==
    budget_remaining_before - total_cost

\* variant of the comparison: a cost equal to the budget counts as exceeded
check_budget_exceeded_ge(total_cost, budget_remaining_before) ==
    IF budget_remaining_before < 0 THEN TRUE
    ELSE total_cost >= budget_remaining_before

check_budget_exceeded(total_cost, budget_remaining_before) ==
    IF budget_remaining_before < 0 THEN TRUE
    ELSE total_cost > budget_remaining_before

project_monthly_burn(total_cost) == total_cost * INCIDENTS_PER_DAY * DAYS_PER_MONTH

estimate_incidents_remaining(budget_remaining_after, total_cost) ==
    IF total_cost <= 0 THEN 0
    ELSE IF budget_remaining_after <= 0 THEN 0
    ELSE budget_remaining_after \div total_cost

\* variant of the node: the budget continues from the cost record the state
\* already holds
cost_guardian_node_carry(state) ==
    LET budget_remaining_before ==
            IF state.cost_guardian # Null THEN state.cost_guardian.budget_remaining
            ELSE state.budget_remaining
        per_agent_costs == aggregate_per_agent_costs(state.hypotheses)
        total_cost == calculate_total_cost(per_agent_costs)
        budget_remaining_after ==
            calculate_budget_remaining(budget_remaining_before, total_cost)
        budget_exceeded == check_budget_exceeded(total_cost, budget_remaining_before)
        cost_guardian_result ==
            [ total_cost |-> total_cost,
              budget_remaining |-> budget_remaining_after,
              budget_exceeded |-> budget_exceeded,
              per_agent_cost |-> per_agent_costs,
              projections |->
                [ monthlyBurn |-> project_monthly_burn(total_cost),
                  incidentsRemaining |->
                      estimate_incidents_remaining(budget_remaining_after, total_cost) ] ]
    IN  add_execution_trace(
            [state EXCEPT !.cost_guardian = cost_guardian_result,
                          !.budget_remaining = budget_remaining_after],
            "cost-guardian", "COMPLETED",
            [total_cost |-> total_cost, budget_remaining |-> budget_remaining_after,
             budget_exceeded |-> budget_exceeded])

cost_guardian_node(state) ==
    LET budget_remaining_before == state.budget_remaining
        per_agent_costs == aggregate_per_agent_costs(state.hypotheses)
        total_cost == calculate_total_cost(per_agent_costs)
        budget_remaining_after ==
            calculate_budget_remaining(budget_remaining_before, total_cost)
        budget_exceeded == check_budget_exceeded(total_cost, budget_remaining_before)
        cost_guardian_result ==
            [ total_cost |-> total_cost,
              budget_remaining |-> budget_remaining_after,
              budget_exceeded |-> budget_exceeded,
              per_agent_cost |-> per_agent_costs,
              projections |->
                [ monthlyBurn |-> project_monthly_burn(total_cost),
                  incidentsRemaining |->
                      estimate_incidents_remaining(budget_remaining_after, total_cost) ] ]
    IN  add_execution_trace(
            [state EXCEPT !.cost_guardian = cost_guardian_result,
                          !.budget_remaining = budget_remaining_after],
            "cost-guardian", "COMPLETED",
            [total_cost |-> total_cost, budget_remaining |-> budget_remaining_after,
             budget_exceeded |-> budget_exceeded])

\* ------------------------------------------------------------------------
\* graph.py: entry and terminal nodes
\* ------------------------------------------------------------------------
\* JSON values that are no strings and no objects.  The model writes a number
\* in the place of a string as a text with a leading "#" (in a tuple for the
\* session id), and a JSON array in the place of an object as a record with the
\* one key json_array.
NonStrings == { "#123" }
NonStringSessions == { << "#7" >> }
NonObjects == { [json_array |-> << "CPU 95.5" >>] }

\* variant of validate_entry_input without the isinstance tests
validate_entry_input_untyped(external_input) ==
    IF Get(external_input, "incident_id", "") = "" THEN "ValueError"
    ELSE IF Get(external_input, "evidence_bundle", EmptyMap) = EmptyMap THEN "ValueError"
    ELSE IF Get(external_input, "budget_remaining", 0) < 0 THEN "ValueError"
    ELSE IF Get(external_input, "session_id", << >>) = << >> THEN "ValueError"
    ELSE "none"

\* the exception validate_entry_input raises, "none" when it returns
validate_entry_input(external_input) ==
    IF Get(external_input, "incident_id", "") = "" THEN "ValueError"
    ELSE IF external_input.incident_id \in NonStrings THEN "ValueError"
    ELSE IF Get(external_input, "evidence_bundle", EmptyMap) = EmptyMap THEN "ValueError"
    ELSE IF external_input.evidence_bundle \in NonObjects THEN "ValueError"
    ELSE IF Get(external_input, "budget_remaining", 0) < 0 THEN "ValueError"
    ELSE IF Get(external_input, "session_id", << >>) = << >> THEN "ValueError"
    ELSE IF external_input.session_id \in NonStringSessions THEN "ValueError"
    ELSE "none"

create_initial_state(incident_id, evidence_bundle, budget_remaining, session_id, execution_id, timestamp) ==
    [ agent_input |->
        [ incident_id |-> incident_id, evidence_bundle |-> evidence_bundle,
          timestamp |-> timestamp, execution_id |-> execution_id,
          session_id |-> session_id ],
      hypotheses |-> EmptyMap,
      consensus |-> Null,
      cost_guardian |-> Null,
      budget_remaining |-> budget_remaining,
      retry_count |-> EmptyMap,
      execution_trace |-> << >>,
      errors |-> << >>,
      session_id |-> session_id,
      start_timestamp |-> timestamp ]

\* now stands for datetime.utcnow(); called only when validate_entry_input passes
entry_node(external_input, now) ==
    LET incident_id == external_input.incident_id
        execution_id == IF Get(external_input, "execution_id", << >>) = << >>
                        THEN << "exec", incident_id, now >>
                        ELSE external_input.execution_id
        timestamp == IF Get(external_input, "timestamp", << >>) = << >>
                     THEN << "ts", now >> ELSE external_input.timestamp
        initial_state ==
            create_initial_state(incident_id, external_input.evidence_bundle,
                                 Get(external_input, "budget_remaining", 0),
                                 external_input.session_id, execution_id, timestamp)
    IN  [initial_state EXCEPT !.execution_trace =
            << [node_id |-> "ENTRY", status |-> "COMPLETED",
                metadata |-> [incident_id |-> incident_id,
                              budget_remaining |-> initial_state.budget_remaining]] >>]

\* variant of the terminal validation: an exceeded budget aborts the run
validate_terminal_state_budget(state) ==
    \/ \E a \in AgentIds : a \notin DOMAIN state.hypotheses
    \/ state.consensus = Null
    \/ state.cost_guardian = Null
    \/ state.cost_guardian.budget_exceeded

\* TRUE when validate_terminal_state raises ValueError
validate_terminal_state_raises(state) ==
    \/ \E a \in AgentIds : a \notin DOMAIN state.hypotheses
    \/ state.consensus = Null
    \/ state.cost_guardian = Null

\* the output of terminal_node; called only when validate_terminal_state passes
terminal_node(state) ==
    [ incident_id |-> state.agent_input.incident_id,
      recommendation |->
        [ unified |-> state.consensus.unified_recommendation,
          confidence |-> state.consensus.aggregated_confidence,
          agreement_level |-> state.consensus.agreement_level,
          conflicts_detected |-> Len(state.consensus.conflicts_detected),
          minority_opinions |-> state.consensus.minority_opinions ],
      agent_outputs |-> state.hypotheses,
      consensus |-> state.consensus,
      cost |->
        [ total |-> state.cost_guardian.total_cost,
          budget_remaining |-> state.cost_guardian.budget_remaining,
          exceeded |-> state.cost_guardian.budget_exceeded,
          per_agent |-> state.cost_guardian.per_agent_cost,
          projections |-> state.cost_guardian.projections ],
      execution_summary |->
        [ agents_succeeded |-> Cardinality({a \in DOMAIN state.hypotheses :
                                              state.hypotheses[a].status = "SUCCESS"}),
          agents_failed |-> Cardinality({a \in DOMAIN state.hypotheses :
                                           state.hypotheses[a].status = "FAILURE"}),
          total_retries |->
            LET ks == SelectSeqIdx(AgentSeq, 1, DOMAIN state.retry_count)
            IN  SumSeq([i \in 1..Len(ks) |-> state.retry_count[ks[i]]]),
          errors_count |-> Len(state.errors) ],
      execution_trace |-> state.execution_trace,
      errors |-> state.errors ]

\* ------------------------------------------------------------------------
\* lambda_handler.py
\* ------------------------------------------------------------------------
DEFAULT_BUDGET == 5000000

\* the exception validate_event raises on event.detail, "none" when it returns
validate_event_raises(detail) ==
    IF Get(detail, "incident_id", "") = "" THEN "ValueError"
    ELSE IF Get(detail, "evidence_bundle", EmptyMap) = EmptyMap THEN "ValueError"
    ELSE "none"

\* the detail validate_event returns, with the defaults filled in
validate_event(detail, now) ==
    LET d1 == IF "budget_remaining" \in DOMAIN detail THEN detail
              ELSE Put(detail, "budget_remaining", DEFAULT_BUDGET)
        d2 == IF "session_id" \in DOMAIN d1 THEN d1
              ELSE Put(d1, "session_id", << d1.incident_id, now >>)
        d3 == IF "execution_id" \in DOMAIN d2 THEN d2
              ELSE Put(d2, "execution_id", << "exec", d2.incident_id, now >>)
    IN  IF "timestamp" \in DOMAIN d3 THEN d3 ELSE Put(d3, "timestamp", << "ts", now >>)

\* ------------------------------------------------------------------------
\* checkpointing.py: DynamoDBCheckpointer on the table partition of one session
\* ------------------------------------------------------------------------
\* pickle.dumps / pickle.loads of a checkpoint
pickle_dumps(checkpoint) == << "pickle", checkpoint >>
pickle_loads(blob) == blob[2]

\* variant of the write: every item is stored under the same sort key
put_same_key(items, checkpoint, metadata) ==
    { it \in items : it.checkpoint_id # 1 }
    \cup { [ checkpoint_id |-> 1,
             state_blob |-> pickle_dumps(checkpoint),
             node_name |-> metadata.source ] }

\* table.put_item: one item per (session_id, checkpoint_id), last writer wins
put(items, checkpoint, metadata) ==
    { it \in items : it.checkpoint_id # checkpoint.id }
    \cup { [ checkpoint_id |-> checkpoint.id,
             state_blob |-> pickle_dumps(checkpoint),
             node_name |-> metadata.source ] }

\* put_writes stores nothing
put_writes(items, writes) == items

\* variant of the query: ascending order, the oldest item of the session
get_tuple_oldest(items) ==
    IF items = {} THEN Null
    ELSE LET item == CHOOSE it \in items :
                         \A other \in items : it.checkpoint_id <= other.checkpoint_id
         IN  pickle_loads(item.state_blob)

\* query(ScanIndexForward=False, Limit=1): Null when the session has no item
get_tuple(items) ==
    IF items = {} THEN Null
    ELSE LET item == CHOOSE it \in items :
                         \A other \in items : other.checkpoint_id <= it.checkpoint_id
         IN  pickle_loads(item.state_blob)

\* get_tuple under the outcome of the read: "ok", "ClientError" (table.query
\* raises), "UnpicklingError" (pickle.loads raises on the stored blob) or
\* "no_blob" (the item has no state_blob).  The except clause and the two
\* early returns give None, which is Null here.
get_tuple_read(items, read) ==
    IF read = "ClientError" THEN Null
    ELSE IF items = {} THEN Null
    ELSE IF read \in {"no_blob", "UnpicklingError"} THEN Null
    ELSE get_tuple(items)

\* query(ScanIndexForward=False): the checkpoints of the session, descending
\* by checkpoint_id
RECURSIVE list(_)
list(items) ==
    IF items = {} THEN << >>
    ELSE LET item == CHOOSE it \in items :
                         \A other \in items : other.checkpoint_id <= it.checkpoint_id
         IN  << pickle_loads(item.state_blob) >> \o list(items \ {item})

\* ------------------------------------------------------------------------
\* Environment: the invocation event and the remote agent endpoints
\* ------------------------------------------------------------------------
DISCLAIMER == "HYPOTHESIS_ONLY_NOT_AUTHORITATIVE"

ValidDetail(budget) ==
    [ incident_id |-> "INC-T1", evidence_bundle |-> [signals |-> "CPU 95.5"],
      budget_remaining |-> budget, session_id |-> << "S6" >>,
      execution_id |-> << "exec-1" >>, timestamp |-> << "2024-01-26T12:00:00" >> ]

\* event.detail of the invocations on the session: an acceptable input (six
\* successful agents exceed its budget, five do not), one that validate_event
\* rejects and those that entry_node rejects
Events ==
    { ValidDetail(5500),
      [ValidDetail(5500) EXCEPT !.incident_id = ""],
      [ValidDetail(5500) EXCEPT !.budget_remaining = 0 - 1],
      [ValidDetail(5500) EXCEPT !.incident_id = "#123"],
      [ValidDetail(5500) EXCEPT !.evidence_bundle = EmptyMap],
      [ValidDetail(5500) EXCEPT !.evidence_bundle = [json_array |-> << "CPU 95.5" >>]],
      [ValidDetail(5500) EXCEPT !.session_id = << >>] }

\* an event without the optional keys execution_id and timestamp
SparseDetail ==
    [ k \in {"incident_id", "evidence_bundle", "budget_remaining", "session_id"} |->
        ValidDetail(5500)[k] ]

Times == {1}

Response(name) ==
    CASE name = "OK80" ->
           [ guardrailAction |-> "NONE", text |-> "JSON",
             body |-> [ confidence |-> 80, status |-> "SUCCESS", disclaimer |-> DISCLAIMER,
                        findings |-> [recommendations |->
                            << [type |-> "INVESTIGATION",
                                description |-> "check connection pool"] >>] ],
             inputTokens |-> 100, outputTokens |-> 50, modelId |-> "M" ]
      [] name = "OK40" ->
           [ guardrailAction |-> "NONE", text |-> "JSON",
             body |-> [ confidence |-> 40, status |-> "SUCCESS", disclaimer |-> DISCLAIMER,
                        findings |-> [recommendations |->
                            << [type |-> "ROLLBACK",
                                description |-> "roll back deploy"] >>] ],
             inputTokens |-> 200, outputTokens |-> 20, modelId |-> "M" ]
      [] name = "OK0" ->
           [ guardrailAction |-> "NONE", text |-> "JSON",
             body |-> [ confidence |-> 80, status |-> "SUCCESS", disclaimer |-> DISCLAIMER,
                        findings |-> [recommendations |->
                            << [type |-> "INVESTIGATION",
                                description |-> "check connection pool"] >>] ],
             inputTokens |-> 0, outputTokens |-> 0, modelId |-> "M" ]
      [] name = "BLOCKED" ->
           [ guardrailAction |-> "BLOCKED", text |-> "EMPTY", body |-> Null,
             inputTokens |-> 10, outputTokens |-> 0, modelId |-> "M" ]
      [] name = "BLOCKED90" ->
           [ guardrailAction |-> "BLOCKED", confidence |-> 90,
             violationType |-> "CONTENT", text |-> "EMPTY", body |-> Null,
             inputTokens |-> 10, outputTokens |-> 0, modelId |-> "M" ]
      [] name = "EMPTY" ->
           [ guardrailAction |-> "NONE", text |-> "EMPTY", body |-> Null,
             inputTokens |-> 20, outputTokens |-> 0, modelId |-> "M" ]
      [] name = "NONJSON" ->
           [ guardrailAction |-> "NONE", text |-> "NONJSON", body |-> Null,
             inputTokens |-> 20, outputTokens |-> 5, modelId |-> "M" ]
      [] name = "BADSCHEMA" ->
           [ guardrailAction |-> "NONE", text |-> "JSON",
             body |-> [ confidence |-> 150, status |-> "SUCCESS", disclaimer |-> DISCLAIMER,
                        findings |-> [recommendations |-> << >>] ],
             inputTokens |-> 100, outputTokens |-> 50, modelId |-> "M" ]

\* fails = Forever: every call raises exc
Forever == 0 - 1

\* An endpoint raises exc on its first `fails` calls and returns `response` on
\* the later ones
Script(fails, exc, response) ==
    [kind |-> "script", fails |-> fails, exc |-> exc, response |-> response]

Unassigned == [kind |-> "unassigned"]
Unconfigured == [kind |-> "unconfigured"]
DefaultEndpoint == Script(0, "none", "OK80")

AlwaysExcs == { "ThrottlingException", "ServiceUnavailableException",
                "TimeoutError", "AccessDeniedException" }

FaultyEndpoints ==
    { Unconfigured }
    \cup { Script(0, "none", r) : r \in {"OK40", "BLOCKED", "BADSCHEMA"} }
    \cup { Script(k, "ThrottlingException", "OK80") : k \in 1..MAX_RETRIES }
    \cup { Script(Forever, e, "OK80") : e \in AlwaysExcs }

\* what invoke_agent does on the k-th call of the endpoint
ScriptOutcome(script, k) ==
    IF script.fails = Forever \/ k <= script.fails
    THEN [raises |-> script.exc, response |-> Null, observability |-> "up"]
    ELSE [raises |-> "none", response |-> Response(script.response), observability |-> "up"]

\* ------------------------------------------------------------------------
\* State
\* ------------------------------------------------------------------------
VARIABLES
    event,        \* event.detail every invocation on the session carries
    endpoint,     \* agent id -> behaviour of its remote endpoint
    calls,        \* agent id -> invoke_agent calls made so far
    store,        \* items of the checkpoint table for the session
    pc,           \* "idle", "ready" (before a node), "ran" (node returned, not
                  \* yet checkpointed), "done", "error", "rejected", "crashed"
    node,         \* index in NodeSeq of the current node
    st,           \* GraphState held by the running invocation (Null when none)
    result,       \* the response of the last invocation (Null when none)
    invocations,  \* invocations started so far
    crashes       \* crashes so far

vars == << event, endpoint, calls, store, pc, node, st, result, invocations, crashes >>

Init ==
    /\ event \in Events
    /\ endpoint = [a \in AgentIds |-> Unassigned]
    /\ calls = [a \in AgentIds |-> 0]
    /\ store = {}
    /\ pc = "idle"
    /\ node = 1
    /\ st = Null
    /\ result = Null
    /\ invocations = 0
    /\ crashes = 0

NotRunning == pc \in {"idle", "done", "error", "rejected", "crashed"}

NextCheckpointId(items) ==
    IF items = {} THEN 1
    ELSE 1 + (CHOOSE m \in {it.checkpoint_id : it \in items} :
                 \A it \in items : it.checkpoint_id <= m)

\* LangGraph checkpoint: the channel values and the node to run next
Checkpoint(items, state, next) ==
    [id |-> NextCheckpointId(items), state |-> state, next |-> next]

\* graph.invoke(input, config) with an input: the channels of the latest
\* checkpoint are overwritten by the keys the input carries (the input of
\* entry_node carries every key except consensus and cost_guardian) and the
\* run starts at the entry point
ApplyInput(latest, input) ==
    IF latest = Null THEN input
    ELSE [input EXCEPT !.consensus = latest.state.consensus,
                       !.cost_guardian = latest.state.cost_guardian]

\* handler, STEP 1: validate_event fails, 400
HandlerRejectEvent ==
    /\ NotRunning
    /\ invocations < MaxInvocations
    /\ validate_event_raises(event) # "none"
    /\ pc' = "rejected"
    /\ result' = [statusCode |-> 400, error |-> "INPUT_VALIDATION_FAILED"]
    /\ st' = Null
    /\ invocations' = invocations + 1
    /\ UNCHANGED << event, endpoint, calls, store, node, crashes >>

\* handler, STEP 2: entry_node fails, 500
HandlerRejectState ==
    /\ NotRunning
    /\ invocations < MaxInvocations
    /\ validate_event_raises(event) = "none"
    /\ \E now \in Times : validate_entry_input(validate_event(event, now)) # "none"
    /\ pc' = "rejected"
    /\ result' = [statusCode |-> 500, error |-> "STATE_CREATION_FAILED"]
    /\ st' = Null
    /\ invocations' = invocations + 1
    /\ UNCHANGED << event, endpoint, calls, store, node, crashes >>

\* handler, STEP 3: graph.invoke(initial_state, config) loads the latest
\* checkpoint, applies the input and writes the input checkpoint
HandlerStart ==
    /\ NotRunning
    /\ invocations < MaxInvocations
    /\ validate_event_raises(event) = "none"
    /\ \E now \in Times :
         LET validated_input == validate_event(event, now)
             initial_state == entry_node(validated_input, now)
             state == ApplyInput(get_tuple(store), initial_state)
         IN  /\ validate_entry_input(validated_input) = "none"
             /\ st' = state
             /\ store' = put(store, Checkpoint(store, state, 1), [source |-> "input"])
    /\ pc' = "ready"
    /\ node' = 1
    /\ result' = Null
    /\ invocations' = invocations + 1
    /\ UNCHANGED << event, endpoint, calls, crashes >>

\* graph.invoke(None, config): continue the session from its latest checkpoint
ResumeInvoke ==
    /\ pc \in {"done", "error", "crashed"}
    /\ invocations < MaxInvocations
    /\ store # {}
    /\ LET latest == get_tuple(store)
       IN  /\ st' = latest.state
           /\ node' = latest.next
           /\ IF latest.next = END
              THEN /\ pc' = "done"
                   /\ result' = [statusCode |-> 200, output |-> terminal_node(latest.state)]
              ELSE /\ pc' = "ready"
                   /\ result' = Null
    /\ invocations' = invocations + 1
    /\ UNCHANGED << event, endpoint, calls, store, crashes >>

FaultyCount == Cardinality({a \in AgentIds :
                               endpoint[a] \notin {Unassigned, DefaultEndpoint}})

\* the behaviours the endpoint of agent a may show at its next call
EndpointChoices(a) ==
    IF endpoint[a] # Unassigned THEN {endpoint[a]}
    ELSE {DefaultEndpoint} \cup (IF FaultyCount < MaxFaulty THEN FaultyEndpoints ELSE {})

GraphFailure == [statusCode |-> 500, error |-> "GRAPH_EXECUTION_FAILED"]

\* the driver runs the agent node NodeSeq[node] and the node returns
AgentRun ==
    /\ pc = "ready"
    /\ node <= Len(AgentSeq)
    /\ \E ep \in EndpointChoices(NodeSeq[node]) :
         LET a == NodeSeq[node]
             k == calls[a] + 1
             r == agent_node(st, a, ep.kind # "unconfigured", ScriptOutcome(ep, k))
         IN  /\ ep.kind # "unconfigured"
             /\ r.raised = "none"
             /\ st' = r.state
             /\ endpoint' = [endpoint EXCEPT ![a] = ep]
             /\ calls' = [calls EXCEPT ![a] =
                    IF validate_agent_input_raises(st.agent_input) THEN @ ELSE k]
             /\ store' = put_writes(store, r.state)
    /\ pc' = "ran"
    /\ UNCHANGED << event, node, result, invocations, crashes >>

\* the agent node raises (missing Bedrock agent id or alias): graph.invoke
\* raises and the handler answers 500
AgentRaise ==
    /\ pc = "ready"
    /\ node <= Len(AgentSeq)
    /\ \E ep \in EndpointChoices(NodeSeq[node]) :
         LET a == NodeSeq[node]
             r == agent_node(st, a, ep.kind # "unconfigured", [raises |-> "none", response |-> Null, observability |-> "up"])
         IN  /\ ep.kind = "unconfigured"
             /\ r.raised # "none"
             /\ endpoint' = [endpoint EXCEPT ![a] = ep]
    /\ pc' = "error"
    /\ result' = GraphFailure
    /\ UNCHANGED << event, calls, store, node, st, invocations, crashes >>

ConsensusRun ==
    /\ pc = "ready"
    /\ NodeSeq[node] = "consensus-node"
    /\ st' = consensus_node(st)
    /\ store' = put_writes(store, st')
    /\ pc' = "ran"
    /\ UNCHANGED << event, endpoint, calls, node, result, invocations, crashes >>

CostGuardianRun ==
    /\ pc = "ready"
    /\ NodeSeq[node] = "cost-guardian-node"
    /\ st' = cost_guardian_node(st)
    /\ store' = put_writes(store, st')
    /\ pc' = "ran"
    /\ UNCHANGED << event, endpoint, calls, node, result, invocations, crashes >>

\* terminal_node returns the output
TerminalRun ==
    /\ pc = "ready"
    /\ NodeSeq[node] = "TERMINAL"
    /\ ~validate_terminal_state_raises(st)
    /\ result' = [statusCode |-> 200, output |-> terminal_node(st)]
    /\ store' = put_writes(store, st)
    /\ pc' = "ran"
    /\ UNCHANGED << event, endpoint, calls, node, st, invocations, crashes >>

\* terminal_node raises ValueError: graph.invoke raises, the handler answers 500
TerminalRaise ==
    /\ pc = "ready"
    /\ NodeSeq[node] = "TERMINAL"
    /\ validate_terminal_state_raises(st)
    /\ pc' = "error"
    /\ result' = GraphFailure
    /\ UNCHANGED << event, endpoint, calls, store, node, st, invocations, crashes >>

\* the driver persists the state the node returned and follows the edge
CheckpointStep ==
    /\ pc = "ran"
    /\ store' = put(store, Checkpoint(store, st, node + 1), [source |-> "loop"])
    /\ node' = node + 1
    /\ pc' = IF node + 1 = END THEN "done" ELSE "ready"
    /\ UNCHANGED << event, endpoint, calls, st, result, invocations, crashes >>

\* the process is killed (crash, external cancellation): memory is lost
Crash ==
    /\ pc \in {"ready", "ran"}
    /\ pc' = "crashed"
    /\ st' = Null
    /\ result' = Null
    /\ crashes' = crashes + 1
    /\ UNCHANGED << event, endpoint, calls, store, node, invocations >>

Next ==
    \/ HandlerRejectEvent
    \/ HandlerRejectState
    \/ HandlerStart
    \/ ResumeInvoke
    \/ AgentRun
    \/ AgentRaise
    \/ ConsensusRun
    \/ CostGuardianRun
    \/ TerminalRun
    \/ TerminalRaise
    \/ CheckpointStep
    \/ Crash

Spec == Init /\ [][Next]_vars

\* ------------------------------------------------------------------------
\* One invocation on a fresh session as a function of its inputs
\* ------------------------------------------------------------------------
\* the agent nodes i..last in topology order; callOf[a] is what invoke_agent
\* does for agent a
RECURSIVE run_agents(_, _, _, _)
run_agents(state, callOf, i, last) ==
    IF i > last THEN state
    ELSE CHOOSE final \in
             { run_agents(next, callOf, i + 1, last) :
                 next \in { agent_node(state, AgentSeq[i], TRUE, callOf[AgentSeq[i]]).state } } :
             TRUE

\* graph.invoke(initial_state, config) on a session without checkpoints, every
\* agent configured
graph_invoke(initial_state, callOf) ==
    CHOOSE out \in
        { IF validate_terminal_state_raises(final)
          THEN [raised |-> "ValueError", state |-> final]
          ELSE [raised |-> "none", state |-> final, output |-> terminal_node(final)] :
            final \in { cost_guardian_node(after_consensus) :
                          after_consensus \in { consensus_node(after_agents) :
                              after_agents \in { run_agents(initial_state, callOf, 1,
                                                            Len(AgentSeq)) } } } } :
        TRUE

\* variant of emit_metric without the try/except around put_metric_data
emit_metric_unguarded(observability) ==
    IF observability = "down" THEN "ClientError" ELSE "none"

\* emit_metric: put_metric_data inside try/except; the exception that leaves it
emit_metric(observability) ==
    IF observability = "down" THEN "none" ELSE "none"

\* handler(event, context); state is the final GraphState behind a 200 response
handler(detail, now, callOf, observability) ==
    IF validate_event_raises(detail) # "none"
    THEN [statusCode |-> 400, error |-> "INPUT_VALIDATION_FAILED"]
    ELSE CHOOSE response \in
             { IF validate_entry_input(validated_input) # "none"
               THEN [statusCode |-> 500, error |-> "STATE_CREATION_FAILED"]
               ELSE CHOOSE served \in
                        { IF g.raised # "none" THEN GraphFailure
                          ELSE IF emit_metric(observability) # "none"
                          THEN [statusCode |-> 500, error |-> "UNHANDLED_EXCEPTION"]
                          ELSE [statusCode |-> 200, output |-> g.output, state |-> g.state] :
                            g \in { graph_invoke(initial_state, callOf) :
                                      initial_state \in { entry_node(validated_input, now) } } } :
                        TRUE :
                 validated_input \in { validate_event(detail, now) } } :
             TRUE

\* ------------------------------------------------------------------------
\* redaction.py: a text is a sequence of one-character strings; a replacement
\* text such as [EMAIL_REDACTED] is one element of the sequence (it starts with
\* "[", ends with "]" and holds no digit and no "@")
\* ------------------------------------------------------------------------
Digits == {"0", "1", "2", "3", "4", "5", "6", "7", "8", "9"}

UpperLetters ==
    {"A", "B", "C", "D", "E", "F", "G", "H", "I", "J", "K", "L", "M",
     "N", "O", "P", "Q", "R", "S", "T", "U", "V", "W", "X", "Y", "Z"}

LowerLetters ==
    {"a", "b", "c", "d", "e", "f", "g", "h", "i", "j", "k", "l", "m",
     "n", "o", "p", "q", "r", "s", "t", "u", "v", "w", "x", "y", "z"}

\* the characters \w matches
WordChars == Digits \cup UpperLetters \cup LowerLetters \cup {"_"}

\* character classes of the email pattern
EmailLocalChars == Digits \cup UpperLetters \cup LowerLetters \cup {".", "_", "%", "+", "-"}
EmailDomainChars == Digits \cup UpperLetters \cup LowerLetters \cup {".", "-"}
EmailTldChars == UpperLetters \cup LowerLetters \cup {"|"}
AccessKeyChars == Digits \cup UpperLetters

\* the order of PII_PATTERNS and the replacement of each pattern
PII_PATTERNS ==
    << [name |-> "email",          replacement |-> "[EMAIL_REDACTED]"],
       [name |-> "phone",          replacement |-> "[PHONE_REDACTED]"],
       [name |-> "ssn",            replacement |-> "[SSN_REDACTED]"],
       [name |-> "aws_account",    replacement |-> "[AWS_ACCOUNT_REDACTED]"],
       [name |-> "aws_access_key", replacement |-> "[AWS_KEY_REDACTED]"],
       [name |-> "ip_address",     replacement |-> "[IP_REDACTED]"] >>

IsWordAt(text, i) == i >= 1 /\ i <= Len(text) /\ text[i] \in WordChars

\* \b in front of position i
WordBoundary(text, i) == IsWordAt(text, i - 1) # IsWordAt(text, i)

\* text[i .. i+n-1] exists and lies in class
AllIn(text, i, n, class) ==
    /\ i >= 1
    /\ i + n - 1 <= Len(text)
    /\ \A k \in i..(i + n - 1) : text[k] \in class

\* the element at position i is ch
IsAt(text, i, ch) == i >= 1 /\ i <= Len(text) /\ text[i] = ch

\* 1 when one of the optional separators [-.] stands at position i, else 0
SepAt(text, i) == IF IsAt(text, i, "-") \/ IsAt(text, i, ".") THEN 1 ELSE 0

\* Each match_ operator gives the last position of the match of its pattern
\* that starts at position i, 0 when there is none.

\* \b\d{3}[-.]?\d{3}[-.]?\d{4}\b
match_phone(text, i) ==
    LET a == i + 3 + SepAt(text, i + 3)
        b == a + 3 + SepAt(text, a + 3)
    IN  IF /\ WordBoundary(text, i)
           /\ AllIn(text, i, 3, Digits)
           /\ AllIn(text, a, 3, Digits)
           /\ AllIn(text, b, 4, Digits)
           /\ WordBoundary(text, b + 4)
        THEN b + 3 ELSE 0

\* \b\d{3}-\d{2}-\d{4}\b
match_ssn(text, i) ==
    IF /\ WordBoundary(text, i)
       /\ AllIn(text, i, 3, Digits)
       /\ IsAt(text, i + 3, "-")
       /\ AllIn(text, i + 4, 2, Digits)
       /\ IsAt(text, i + 6, "-")
       /\ AllIn(text, i + 7, 4, Digits)
       /\ WordBoundary(text, i + 11)
    THEN i + 10 ELSE 0

\* \b\d{12}\b
match_aws_account(text, i) ==
    IF /\ WordBoundary(text, i)
       /\ AllIn(text, i, 12, Digits)
       /\ WordBoundary(text, i + 12)
    THEN i + 11 ELSE 0

\* AKIA[0-9A-Z]{16}
match_aws_access_key(text, i) ==
    IF /\ IsAt(text, i, "A") /\ IsAt(text, i + 1, "K")
       /\ IsAt(text, i + 2, "I") /\ IsAt(text, i + 3, "A")
       /\ AllIn(text, i + 4, 16, AccessKeyChars)
    THEN i + 19 ELSE 0

\* the length of the run of digits that starts at position i
DigitRun(text, i) ==
    IF AllIn(text, i, 1, Digits)
    THEN CHOOSE n \in 1..(Len(text) - i + 1) :
             /\ AllIn(text, i, n, Digits)
             /\ ~AllIn(text, i, n + 1, Digits)
    ELSE 0

\* \d{1,3}\. at position i: the position behind the dot, 0 when there is no match
OctetDot(text, i) ==
    IF DigitRun(text, i) \in 1..3 /\ IsAt(text, i + DigitRun(text, i), ".")
    THEN i + DigitRun(text, i) + 1 ELSE 0

\* \b\d{1,3}\.\d{1,3}\.\d{1,3}\.\d{1,3}\b
match_ip_address(text, i) ==
    LET o2 == OctetDot(text, i)
        o3 == IF o2 = 0 THEN 0 ELSE OctetDot(text, o2)
        o4 == IF o3 = 0 THEN 0 ELSE OctetDot(text, o3)
    IN  IF /\ WordBoundary(text, i)
           /\ o4 # 0
           /\ DigitRun(text, o4) \in 1..3
           /\ WordBoundary(text, o4 + DigitRun(text, o4))
        THEN o4 + DigitRun(text, o4) - 1 ELSE 0

\* \b[A-Za-z0-9._%+-]+@[A-Za-z0-9.-]+\.[A-Z|a-z]{2,}\b : the local part runs
\* from i to the "@" at position at; the domain ends at the last dot d that
\* leaves at least two characters of the last class up to a word boundary
EmailEnds(text, at) ==
    { e \in (at + 1)..Len(text) :
        \E d \in (at + 2)..(e - 2) :
            /\ AllIn(text, at + 1, d - at - 1, EmailDomainChars)
            /\ text[d] = "."
            /\ AllIn(text, d + 1, e - d, EmailTldChars)
            /\ WordBoundary(text, e + 1) }

match_email(text, i) ==
    LET ats == { at \in (i + 1)..Len(text) :
                   /\ text[at] = "@"
                   /\ AllIn(text, i, at - i, EmailLocalChars) }
    IN  IF WordBoundary(text, i) /\ ats # {}
        THEN LET at == CHOOSE a \in ats : TRUE
             IN  IF EmailEnds(text, at) = {} THEN 0
                 ELSE CHOOSE e \in EmailEnds(text, at) :
                          \A f \in EmailEnds(text, at) : f <= e
        ELSE 0

match(name, text, i) ==
    CASE name = "email"          -> match_email(text, i)
      [] name = "phone"          -> match_phone(text, i)
      [] name = "ssn"            -> match_ssn(text, i)
      [] name = "aws_account"    -> match_aws_account(text, i)
      [] name = "aws_access_key" -> match_aws_access_key(text, i)
      [] name = "ip_address"     -> match_ip_address(text, i)

\* re.sub(pattern, replacement, text) from position i on: the leftmost match is
\* replaced and the scan goes on behind it
RECURSIVE re_sub(_, _, _, _)
re_sub(name, replacement, text, i) ==
    IF i > Len(text) THEN << >>
    ELSE IF match(name, text, i) # 0
    THEN << replacement >> \o re_sub(name, replacement, text, match(name, text, i) + 1)
    ELSE << text[i] >> \o re_sub(name, replacement, text, i + 1)

\* the loop of redact_pii over the patterns k .. 6
RECURSIVE redact_from(_, _)
redact_from(text, k) ==
    IF k > Len(PII_PATTERNS) THEN text
    ELSE redact_from(re_sub(PII_PATTERNS[k].name, PII_PATTERNS[k].replacement, text, 1),
                     k + 1)

\* redact_pii(text): the redacted text and whether any pattern matched (a match
\* puts a replacement into the text, so the text differs exactly then)
redact_pii(text) ==
    [ text |-> redact_from(text, 1),
      was_redacted |-> redact_from(text, 1) # text ]

\* json.dumps of a string: the quotes, and the escapes of the quote, the
\* backslash, the newline and the tab
RECURSIVE json_escape(_)
json_escape(text) ==
    IF text = << >> THEN << >>
    ELSE ( CASE Head(text) = "\"" -> << "\\", "\"" >>
             [] Head(text) = "\\" -> << "\\", "\\" >>
             [] Head(text) = "\n" -> << "\\", "n" >>
             [] Head(text) = "\t" -> << "\\", "t" >>
             [] OTHER -> << Head(text) >> ) \o json_escape(Tail(text))

json_dumps(text) == << "\"" >> \o json_escape(text) \o << "\"" >>

\* ------------------------------------------------------------------------
\* trace-processor.py: handler(event, context) for an event with the required
\* keys; the item it puts into the traces table (text fields only)
\* ------------------------------------------------------------------------
trace_processor_item(trace_data) ==
    LET prompt == redact_pii(trace_data.prompt.text)
        response == redact_pii(trace_data.response.text)
    IN  [ agentId  |-> trace_data.agentId,
          prompt   |-> [text |-> prompt.text],
          response |-> [text |-> response.text],
          metadata |-> [redactionApplied |->
                            prompt.was_redacted \/ response.was_redacted] ]

\* guardrail_handler.py: the text fields of the item handle_guardrail_violation
\* puts into the violations table.  response is the Bedrock response; an
\* absent output is the empty text.
violation_item(agent_id, input_text, response) ==
    [ agentId  |-> agent_id,
      content  |-> [ input  |-> redact_pii(input_text).text,
                     output |-> IF Get(response, "output", << >>) # << >>
                                THEN redact_pii(response.output).text
                                ELSE << >>,
                     detectedText |-> << "[REDACTED]" >> ],
      response |-> [ message |-> Get(response, "message",
                                     << "Guardrail violation detected" >>) ] ]

\* ------------------------------------------------------------------------
\* Metric emission.  A metric is its name and its list of dimensions.
\* ------------------------------------------------------------------------
Dim(name, value) == [Name |-> name, Value |-> value]

\* variant of the metrics of handle_guardrail_violation with the incident as a
\* dimension
guardrail_metrics_per_incident(agent_id, incident_id, violation) ==
    << [ MetricName |-> "ViolationCount",
         Dimensions |-> << Dim("AgentId", agent_id), Dim("IncidentId", incident_id) >> ],
       [ MetricName |-> "ConfidenceScore",
         Dimensions |-> << Dim("AgentId", agent_id), Dim("IncidentId", incident_id) >> ] >>

\* guardrail_handler.py: the MetricData handle_guardrail_violation passes to
\* put_metric_data
guardrail_metrics(agent_id, incident_id, violation) ==
    << [ MetricName |-> "ViolationCount",
         Dimensions |-> << Dim("AgentId", agent_id),
                           Dim("ViolationType", Get(violation, "type", "UNKNOWN")),
                           Dim("Action", Get(violation, "action", "BLOCK")) >> ],
       [ MetricName |-> "ConfidenceScore",
         Dimensions |-> << Dim("AgentId", agent_id),
                           Dim("ViolationType", Get(violation, "type", "UNKNOWN")) >> ] >>

\* knowledge_retrieval.py: a query is the set of the listed phrases it holds
RUNBOOK_WORDS == {"runbook", "procedure", "how to", "steps"}
POSTMORTEM_WORDS == {"postmortem", "incident", "outage", "failure"}

classify_query(query) ==
    IF query \cap RUNBOOK_WORDS # {} THEN "runbook"
    ELSE IF query \cap POSTMORTEM_WORDS # {} THEN "postmortem"
    ELSE "general"

\* emit_metrics(metric_name, value, unit, query_type, dimensions): the metric
\* put; dimensions is the list of the additional dimensions
emit_metrics(metric_name, query_type, dimensions) ==
    [ MetricName |-> metric_name,
      Dimensions |-> << Dim("AgentId", "knowledge-rag"), Dim("QueryType", query_type) >>
                     \o dimensions ]

\* retrieve_knowledge(query, max_results, incident_id): the metrics it emits.
\* retrieved is the number of results of the retrieve call, -1 when it raises.
retrieve_knowledge_metrics(query, incident_id, retrieved) ==
    LET query_type == classify_query(query)
    IN  IF retrieved < 0
        THEN << emit_metrics("KnowledgeRetrievalErrors", query_type,
                             << Dim("ErrorType", "RetrievalFailure") >>),
                emit_metrics("KnowledgeRetrievalZeroResults", query_type, << >>) >>
        ELSE << emit_metrics("KnowledgeRetrievalCount", query_type, << >>),
                emit_metrics("KnowledgeRetrievalLatency", query_type, << >>),
                emit_metrics("KnowledgeRetrievalResultCount", query_type, << >>) >>
             \o ( IF retrieved > 0
                  THEN << emit_metrics("KnowledgeRetrievalRelevanceScore", query_type, << >>) >>
                  ELSE << emit_metrics("KnowledgeRetrievalZeroResults", query_type, << >>) >> )

\* lambda_handler.py: the metrics handler emits on the way to a response; every
\* call of emit_metric leaves dimensions at its default None
handler_metrics(response) ==
    LET plain(names) == [i \in 1..Len(names) |->
                            [MetricName |-> names[i], Dimensions |-> << >>]]
    IN  IF response.statusCode = 400 THEN plain(<< "Execution.ValidationFailure" >>)
        ELSE IF response.statusCode = 500 /\ response.error = "STATE_CREATION_FAILED"
        THEN plain(<< "Execution.StateCreationFailure" >>)
        ELSE IF response.statusCode = 500 /\ response.error = "GRAPH_EXECUTION_FAILED"
        THEN plain(<< "Execution.GraphFailure" >>)
        ELSE IF response.statusCode = 500
        THEN plain(<< "Execution.UnhandledException" >>)
        ELSE plain(<< "Execution.Count", "Execution.DurationMs", "Cost.TotalUSD",
                      "Agent.SuccessCount", "Agent.FailureCount", "Agent.FailureRate" >>)

\* recommendation_persistence.py: emit_metric puts a metric without dimensions
persistence_metric(metric_name) == [MetricName |-> metric_name, Dimensions |-> << >>]

\* ------------------------------------------------------------------------
\* Concurrent specification: two invokers on the same session_id.  An invoker
\* reads the table once, when graph.invoke loads the latest checkpoint; after
\* that it works on the state in its own memory and writes one checkpoint per
\* completed node.  pc, node, st and result are functions of the invoker.
\* Every endpoint answers, so every slot is filled and terminal_node returns.
\* ------------------------------------------------------------------------
Invokers == {1, 2}

ConcCall(a) == ScriptOutcome(endpoint[a], 1)

\* the wall clock read by the handler: it advances from one invocation to the next
ConcClock == invocations + 1

ConcInit ==
    /\ event \in { ValidDetail(5500), SparseDetail }
    /\ endpoint = [a \in AgentIds |-> DefaultEndpoint]
    /\ calls = [a \in AgentIds |-> 0]
    /\ store = {}
    /\ pc = [i \in Invokers |-> "idle"]
    /\ node = [i \in Invokers |-> 1]
    /\ st = [i \in Invokers |-> Null]
    /\ result = [i \in Invokers |-> Null]
    /\ invocations = 0
    /\ crashes = 0

\* handler of invoker i: graph.invoke(initial_state, config)
ConcHandlerStart ==
    \E i \in Invokers :
        LET validated_input == validate_event(event, ConcClock)
            initial_state == entry_node(validated_input, ConcClock)
            state == ApplyInput(get_tuple(store), initial_state)
        IN  /\ pc[i] = "idle"
            /\ Cardinality(store) < MaxItems
            /\ \A j \in Invokers : j < i => pc[j] # "idle"
            /\ st' = [st EXCEPT ![i] = state]
            /\ store' = put(store, Checkpoint(store, state, 1), [source |-> "input"])
            /\ pc' = [pc EXCEPT ![i] = "ready"]
            /\ node' = [node EXCEPT ![i] = 1]
            /\ invocations' = invocations + 1
            /\ UNCHANGED << event, endpoint, calls, result, crashes >>

\* invoker i resumes the session: graph.invoke(None, config)
ConcResume ==
    \E i \in Invokers :
        LET latest == get_tuple(store)
        IN  /\ pc[i] = "idle"
            /\ store # {}
            /\ st' = [st EXCEPT ![i] = latest.state]
            /\ node' = [node EXCEPT ![i] = latest.next]
            /\ IF latest.next = END
               THEN /\ pc' = [pc EXCEPT ![i] = "done"]
                    /\ result' = [result EXCEPT ![i] =
                           [statusCode |-> 200, output |-> terminal_node(latest.state)]]
               ELSE /\ pc' = [pc EXCEPT ![i] = "ready"]
                    /\ UNCHANGED result
            /\ invocations' = invocations + 1
            /\ UNCHANGED << event, endpoint, calls, store, crashes >>

\* the state invoker i holds after its current node, a node before TERMINAL
ConcNodeResult(i) ==
    IF node[i] <= Len(AgentSeq)
    THEN agent_node(st[i], NodeSeq[node[i]], TRUE, ConcCall(NodeSeq[node[i]])).state
    ELSE IF NodeSeq[node[i]] = "consensus-node" THEN consensus_node(st[i])
    ELSE cost_guardian_node(st[i])

\* invoker i runs its current node and persists the state the node returned
ConcNodeStep ==
    \E i \in Invokers :
        /\ pc[i] = "ready"
        /\ NodeSeq[node[i]] # "TERMINAL"
        /\ Cardinality(store) < MaxItems
        /\ st' = [st EXCEPT ![i] = ConcNodeResult(i)]
        /\ store' = put(store, Checkpoint(store, st'[i], node[i] + 1), [source |-> "loop"])
        /\ node' = [node EXCEPT ![i] = @ + 1]
        /\ calls' = IF node[i] <= Len(AgentSeq)
                    THEN [calls EXCEPT ![NodeSeq[node[i]]] = @ + 1] ELSE calls
        /\ UNCHANGED << event, endpoint, pc, result, invocations, crashes >>

\* terminal_node of invoker i returns the output; the last checkpoint is written
ConcTerminal ==
    \E i \in Invokers :
        /\ pc[i] = "ready"
        /\ NodeSeq[node[i]] = "TERMINAL"
        /\ ~validate_terminal_state_raises(st[i])
        /\ Cardinality(store) < MaxItems
        /\ result' = [result EXCEPT ![i] =
               [statusCode |-> 200, output |-> terminal_node(st[i])]]
        /\ store' = put(store, Checkpoint(store, st[i], END), [source |-> "loop"])
        /\ node' = [node EXCEPT ![i] = END]
        /\ pc' = [pc EXCEPT ![i] = "done"]
        /\ UNCHANGED << event, endpoint, calls, st, invocations, crashes >>

ConcNext ==
    \/ ConcHandlerStart
    \/ ConcResume
    \/ ConcNodeStep
    \/ ConcTerminal

ConcSpec == ConcInit /\ [][ConcNext]_vars

\* ------------------------------------------------------------------------
\* Unit specification: the nodes and the handler applied to drawn inputs
\* ------------------------------------------------------------------------
UnitBudgets == { 0 - 1000, 0, 5500, 100000 }

UnitResponses == { "OK80", "OK40", "OK0", "BLOCKED", "BLOCKED90", "EMPTY", "NONJSON", "BADSCHEMA" }

UnitExceptions ==
    DOMAIN ERROR_CODE_MAPPING \cup { "GuardrailInterventionException", "ValueError" }

UnitCall(raises, response, observability) ==
    [ raises |-> raises,
      response |-> IF raises = "none" THEN Response(response) ELSE Null,
      observability |-> observability ]

UnitCalls ==
    { UnitCall(e, "OK80", o) : e \in UnitExceptions, o \in {"up", "down"} }
    \cup { UnitCall("none", r, o) : r \in UnitResponses, o \in {"up", "down"} }

\* an event with the required keys only
BareDetail ==
    [ k \in {"incident_id", "evidence_bundle"} |-> ValidDetail(5500)[k] ]

UnitEvents == Events \cup { SparseDetail, BareDetail }

UnitTimes == {1, 2}

\* the agents at odd positions of the topology answer with c1, the others with c2
UnitProfile(c1, c2) ==
    [ a \in AgentIds |->
        IF a \in {AgentSeq[1], AgentSeq[3], AgentSeq[5]} THEN c1 ELSE c2 ]

\* the GraphState in front of node n of a run on ValidDetail
UnitState(budget, bad_input, k, c1, c2, n) ==
    LET base == entry_node(validate_event(ValidDetail(5500), 1), 1)
        initial ==
            [ base EXCEPT
                !.budget_remaining = budget,
                !.agent_input.incident_id = IF bad_input THEN "" ELSE @,
                !.retry_count = IF k = 0 THEN EmptyMap ELSE [a \in AgentIds |-> k] ]
    IN  run_agents(initial, UnitProfile(c1, c2), 1, n - 1)

UnitInit ==
    /\ event \in UnitEvents
    /\ \/ /\ event = ValidDetail(5500)
          /\ \E n \in 1..(Len(AgentSeq) + 1), budget \in UnitBudgets,
                bad_input \in BOOLEAN, k \in 0..MAX_RETRIES,
                c1 \in { UnitCall("none", "OK80", "up"), UnitCall("none", "BLOCKED", "up") },
                c2 \in { UnitCall("none", "OK40", "up"),
                         UnitCall("AccessDeniedException", "OK80", "up") } :
                /\ node = n
                /\ st = UnitState(budget, bad_input, k, c1, c2, n)
       \/ /\ event # ValidDetail(5500)
          /\ node = 1
          /\ st = Null
    /\ endpoint = [a \in AgentIds |-> Unassigned]
    /\ calls = [a \in AgentIds |-> 0]
    /\ store = {}
    /\ pc = "unit"
    /\ result = Null
    /\ invocations = 0
    /\ crashes = 0

\* agent_node applied to st for the agent at position node
UnitAgentNode ==
    /\ pc = "unit"
    /\ st # Null
    /\ node <= Len(AgentSeq)
    /\ \E call \in UnitCalls :
         result' = [ op |-> "agent_node", call |-> call,
                     out |-> agent_node(st, AgentSeq[node], TRUE, call) ]
    /\ pc' = "unit-done"
    /\ UNCHANGED << event, endpoint, calls, store, node, st, invocations, crashes >>

UnitConsensus ==
    /\ pc = "unit"
    /\ st # Null
    /\ node = Len(AgentSeq) + 1
    /\ result' = [op |-> "consensus_node", out |-> consensus_node(st)]
    /\ pc' = "unit-done"
    /\ UNCHANGED << event, endpoint, calls, store, node, st, invocations, crashes >>

UnitCostGuardian ==
    /\ pc = "unit"
    /\ st # Null
    /\ node = Len(AgentSeq) + 1
    /\ result' = [op |-> "cost_guardian_node", out |-> cost_guardian_node(st)]
    /\ pc' = "unit-done"
    /\ UNCHANGED << event, endpoint, calls, store, node, st, invocations, crashes >>

\* the handler invoked twice on the event, on fresh sessions, at two clock
\* readings, the agents giving the same responses
UnitReplay ==
    /\ pc = "unit"
    /\ node = 1
    /\ \E t1 \in UnitTimes, t2 \in UnitTimes, r \in {"OK80", "OK40"} :
         LET callOf == [a \in AgentIds |-> UnitCall("none", r, "up")]
         IN  result' = [ op |-> "replay",
                         first |-> handler(event, t1, callOf, "up"),
                         second |-> handler(event, t2, callOf, "up") ]
    /\ pc' = "unit-done"
    /\ UNCHANGED << event, endpoint, calls, store, node, st, invocations, crashes >>

\* the handler invoked on the event with the observability sinks working and
\* with every sink failing, the agents giving the same responses
UnitObservability ==
    /\ pc = "unit"
    /\ node = 1
    /\ \E a \in AgentIds, c \in UnitCalls :
         LET callOf == [b \in AgentIds |->
                          IF b = a THEN c ELSE UnitCall("none", "OK80", "up")]
         IN  /\ c.observability = "up"
             /\ result' =
                  [ op |-> "observability", agent |-> a, call |-> c,
                    up |-> handler(event, 1, callOf, "up"),
                    down |-> handler(event, 1,
                                 [b \in AgentIds |->
                                     [callOf[b] EXCEPT !.observability = "down"]],
                                 "down") ]
    /\ pc' = "unit-done"
    /\ UNCHANGED << event, endpoint, calls, store, node, st, invocations, crashes >>

\* fields of an agent invocation outside and inside the canonical data of the hash
ExcludedFields ==
    { "timestamp", "session_id", "reasoning", "disclaimer", "citations", "cost",
      "retry_count", "confidence_5th_decimal" }

IncludedFields ==
    { "incident_id", "evidence_bundle", "execution_id", "findings", "confidence" }

\* the sets of fields in which the second invocation differs from the first
FieldChanges ==
    { {} } \cup { {f} : f \in ExcludedFields \cup IncludedFields }
    \cup { ExcludedFields } \cup { ExcludedFields \cup {f} : f \in IncludedFields }

\* the state and the call with the fields of `changed` replaced
ChangedState(state, agent_id, changed) ==
    [ state EXCEPT
        !.agent_input.timestamp = IF "timestamp" \in changed THEN << "2024-02-01T08:30:00" >> ELSE @,
        !.agent_input.session_id = IF "session_id" \in changed THEN << "S7" >> ELSE @,
        !.agent_input.incident_id = IF "incident_id" \in changed THEN "INC-T2" ELSE @,
        !.agent_input.evidence_bundle =
            IF "evidence_bundle" \in changed THEN [signals |-> "CPU 20.0"] ELSE @,
        !.agent_input.execution_id = IF "execution_id" \in changed THEN << "exec-2" >> ELSE @,
        !.retry_count = IF "retry_count" \in changed
                        THEN Put(@, agent_id, Get(@, agent_id, 0) + 1) ELSE @ ]

ChangedCall(call, changed) ==
    LET body == call.response.body
        b1 == IF "reasoning" \in changed THEN Put(body, "reasoning", "other words") ELSE body
        b2 == IF "disclaimer" \in changed
              THEN Put(b1, "disclaimer", "Advisory. HYPOTHESIS_ONLY_NOT_AUTHORITATIVE") ELSE b1
        b3 == IF "citations" \in changed THEN Put(b2, "citations", << "runbook-12" >>) ELSE b2
        b4 == IF "findings" \in changed
              THEN Put(b3, "findings", Response("OK40").body.findings) ELSE b3
        b5 == IF "confidence" \in changed THEN Put(b4, "confidence_rest", 60) ELSE b4
        b6 == IF "confidence_5th_decimal" \in changed /\ "confidence" \notin changed
              THEN Put(b5, "confidence_rest", 40) ELSE b5
    IN  [ call EXCEPT
            !.response.body = b6,
            !.response.inputTokens = IF "cost" \in changed THEN @ + 7 ELSE @ ]

\* agent_node applied to st and to a second state and response that differ from
\* the first in the fields of `changed`
UnitHash ==
    /\ pc = "unit"
    /\ st # Null
    /\ node <= Len(AgentSeq)
    /\ \E changed \in FieldChanges :
         LET call == UnitCall("none", "OK80", "up")
         IN  result' =
               [ op |-> "hash", changed |-> changed,
                 first |-> agent_node(st, AgentSeq[node], TRUE, call),
                 second |-> agent_node(ChangedState(st, AgentSeq[node], changed),
                                       AgentSeq[node], TRUE, ChangedCall(call, changed)) ]
    /\ pc' = "unit-done"
    /\ UNCHANGED << event, endpoint, calls, store, node, st, invocations, crashes >>

\* what the endpoint of an agent does in a drawn run: it is throttled (the
\* node gives the retry signal and leaves the slot empty), it is denied (a
\* FAILURE hypothesis), or it answers with the confidence 0.37 or 1.0
UnitSlotCalls ==
    { UnitCall("ThrottlingException", "OK80", "up"),
      UnitCall("AccessDeniedException", "OK80", "up"),
      [UnitCall("none", "OK80", "up") EXCEPT !.response.body.confidence = 37],
      [UnitCall("none", "OK80", "up") EXCEPT !.response.body.confidence = 100] }

\* hypotheses with the SUCCESS output of agent_id replaced by a failure hypothesis
ReplaceByFailure(hypotheses, agent_id) ==
    Put(hypotheses, agent_id,
        create_failure_hypothesis(agent_id, hypotheses[agent_id].execution_id,
                                  "INTERNAL_ERROR", FALSE, 0, extract_cost_metadata(Null)))

\* aggregate_confidence and compute_agreement_level applied to the hypotheses
\* of a drawn run, and aggregate_confidence applied to them with one SUCCESS
\* output replaced by a failure hypothesis
UnitArithmetic ==
    /\ pc = "unit"
    /\ st = Null
    /\ validate_event_raises(event) = "none"
    /\ validate_entry_input(validate_event(event, 1)) = "none"
    /\ \E callOf \in [AgentIds -> UnitSlotCalls] :
         \E hypotheses \in { run_agents(entry_node(validate_event(event, 1), 1), callOf,
                                        1, Len(AgentSeq)).hypotheses } :
             result' =
               [ op |-> "arithmetic", hypotheses |-> hypotheses,
                 aggregated_confidence |-> aggregate_confidence(hypotheses, AGENT_WEIGHTS),
                 agreement_level |-> compute_agreement_level(hypotheses),
                 degraded |->
                   [ a \in { b \in DOMAIN hypotheses : hypotheses[b].status = "SUCCESS" } |->
                       aggregate_confidence(ReplaceByFailure(hypotheses, a), AGENT_WEIGHTS) ] ]
    /\ pc' = "unit-done"
    /\ UNCHANGED << event, endpoint, calls, store, node, st, invocations, crashes >>

\* one PII item of each kind of PII_PATTERNS
PiiSamples ==
    [ email          |-> << "a", "@", "b", ".", "c", "o" >>,
      phone          |-> << "5", "5", "5", "-", "1", "2", "3", "-", "4", "5", "6", "7" >>,
      ssn            |-> << "1", "2", "3", "-", "4", "5", "-", "6", "7", "8", "9" >>,
      aws_account    |-> << "1", "2", "3", "4", "5", "6", "7", "8", "9", "0", "1", "2" >>,
      aws_access_key |-> << "A", "K", "I", "A", "A", "B", "C", "D", "E", "F", "G", "H",
                            "I", "J", "K", "L", "M", "N", "O", "P" >>,
      ip_address     |-> << "1", "0", ".", "0", ".", "0", ".", "1" >> ]

\* the text in front of and behind the item: nothing, a word and a blank, a
\* word and a colon, a word and a line break
TextsBefore == { << >>, << "a", "t", " " >>, << "a", "t", ":" >>, << "a", "t", "\n" >> }
TextsBehind == { << >>, << " ", "u", "p" >>, << "." >>, << "\n", "u", "p" >> }

\* One text with one PII item is the evidence the prompt carries (inputText is
\* the JSON encoding of the agent input), the text of the agent's answer
\* (response_text is the JSON encoding of raw_output) and, when with_message,
\* the message of the Bedrock response.
UnitRedaction ==
    /\ pc = "unit"
    /\ event = BareDetail
    /\ \E kind \in DOMAIN PiiSamples, before \in TextsBefore, behind \in TextsBehind,
          with_message \in BOOLEAN :
         LET text == before \o PiiSamples[kind] \o behind
             bedrock_response ==
                 IF with_message THEN [output |-> text, message |-> text]
                 ELSE [output |-> text]
         IN  result' =
               [ op |-> "redaction", kind |-> kind, pii |-> PiiSamples[kind],
                 text |-> text, with_message |-> with_message,
                 trace |-> trace_processor_item(
                               [ agentId |-> AgentSeq[1],
                                 prompt |-> [text |-> json_dumps(text)],
                                 response |-> [text |-> json_dumps(text)] ]),
                 violation |-> violation_item(AgentSeq[1], json_dumps(text),
                                              bedrock_response) ]
    /\ pc' = "unit-done"
    /\ UNCHANGED << event, endpoint, calls, store, node, st, invocations, crashes >>

\* the phrases of a query and the outcomes of the retrieve call
UnitQueries == { {}, {"runbook"}, {"outage"}, {"steps", "incident"} }
UnitRetrieved == { 0 - 1, 0, 2 }

UnitViolations ==
    { [action |-> "BLOCK"], [type |-> "PII", action |-> "BLOCK"],
      [type |-> "CONTENT", action |-> "WARN", confidence |-> 90] }

\* the metrics one component emits for one input; ids holds the incident,
\* execution and trace ids the component was handed
UnitMetrics ==
    /\ pc = "unit"
    /\ event = BareDetail
    /\ \E incident_id \in {"INC-T1", "INC-T2"} :
         LET ids == { incident_id, "exec-1", "trace-1" }
         IN  \/ \E a \in AgentIds, v \in UnitViolations :
                  result' = [ op |-> "metrics", component |-> "guardrail_handler", ids |-> ids,
                              metrics |-> guardrail_metrics(a, incident_id, v) ]
             \/ \E q \in UnitQueries, n \in UnitRetrieved :
                  result' = [ op |-> "metrics", component |-> "knowledge_retrieval",
                              ids |-> ids, retrieved |-> n,
                              metrics |-> retrieve_knowledge_metrics(q, incident_id, n) ]
             \/ \E r \in { [statusCode |-> 400, error |-> "INPUT_VALIDATION_FAILED"],
                             [statusCode |-> 500, error |-> "STATE_CREATION_FAILED"],
                             GraphFailure,
                             [statusCode |-> 500, error |-> "UNHANDLED_EXCEPTION"],
                             [statusCode |-> 200] } :
                  result' = [ op |-> "metrics", component |-> "lambda_handler", ids |-> ids,
                              metrics |-> handler_metrics(r) ]
             \/ result' = [ op |-> "metrics", component |-> "recommendation_persistence",
                            ids |-> ids,
                            metrics |-> << persistence_metric("RecommendationsPersisted") >> ]
    /\ pc' = "unit-done"
    /\ UNCHANGED << event, endpoint, calls, store, node, st, invocations, crashes >>

\* the outcomes of reading the latest checkpoint
UnitReads == { "ok", "ClientError", "UnpicklingError", "no_blob" }

\* The session holds the checkpoint written after the agents in front of node;
\* the handler is invoked again and graph.invoke loads the latest checkpoint
\* under the read outcome, applies the input and starts at the entry point.
UnitLoad ==
    /\ pc = "unit"
    /\ st # Null
    /\ node >= 2
    /\ st.budget_remaining = 5500
    /\ \E read \in UnitReads :
         LET items == put({}, Checkpoint({}, st, node), [source |-> "loop"])
             loaded == get_tuple_read(items, read)
         IN  result' =
               [ op |-> "load", read |-> read, items |-> items, loaded |-> loaded,
                 start |-> ApplyInput(loaded, entry_node(validate_event(event, 2), 2)) ]
    /\ pc' = "unit-done"
    /\ UNCHANGED << event, endpoint, calls, store, node, st, invocations, crashes >>

UnitNext ==
    \/ UnitLoad
    \/ UnitMetrics
    \/ UnitRedaction
    \/ UnitArithmetic
    \/ UnitHash
    \/ UnitAgentNode
    \/ UnitConsensus
    \/ UnitCostGuardian
    \/ UnitReplay
    \/ UnitObservability

UnitSpec == UnitInit /\ [][UnitNext]_vars

\* ------------------------------------------------------------------------
\* Properties
\* ------------------------------------------------------------------------
CountTrace(trace, node_id, status) ==
    Cardinality({i \in 1..Len(trace) :
                    trace[i].node_id = node_id /\ trace[i].status = status})

CountErrors(errors, agent_id) ==
    Cardinality({i \in 1..Len(errors) : errors[i].agent_id = agent_id})

\* the invocation has returned to its caller
RunEnded == pc \in {"done", "error"}

Latest == get_tuple(store)

AlwaysThrottled(ep) ==
    ep.kind = "script" /\ ep.fails = Forever /\ ep.exc = "ThrottlingException"

\* C1 (P5, retry bound): when the endpoint of an agent answers every call with
\* a retryable error, the run ends with exactly MAX_RETRIES RETRYING entries
\* for that agent and with a FAILURE hypothesis in its slot.
C1_RetryBound ==
    RunEnded =>
        \A a \in AgentIds :
            AlwaysThrottled(endpoint[a]) =>
                /\ CountTrace(st.execution_trace, a, "RETRYING") = MAX_RETRIES
                /\ a \in DOMAIN st.hypotheses
                /\ st.hypotheses[a].status = "FAILURE"

\* C2: after a retry signal the same agent node runs again; no later node
\* starts while the slot of an earlier agent is still absent.
C2_RetryReentersNode ==
    pc = "ready" =>
        \A i \in 1..Len(AgentSeq) : i < node => AgentSeq[i] \in DOMAIN st.hypotheses

AllConfigured == \A a \in AgentIds : endpoint[a] # Unconfigured

\* C3: a run that passed entry validation with every endpoint configured ends
\* with the terminal output, never with an error response.
C3_AlwaysTerminalOutput ==
    AllConfigured =>
        /\ pc # "error"
        /\ (pc = "done" => result.statusCode = 200)

NonRetryableAlways(ep) ==
    /\ ep.kind = "script"
    /\ \/ ep.fails = Forever /\ ep.exc = "AccessDeniedException"
       \/ ep.fails = 0 /\ ep.response \in {"BLOCKED", "BADSCHEMA"}

Succeeds(ep) == ep.kind = "script" /\ ep.fails = 0 /\ ep.response \in {"OK80", "OK40"}

\* C4 (P4, failure as hypothesis): when the endpoint of agent a always fails
\* with a non-retryable error (and the other agents answer), the run completes;
\* the slot of a is a FAILURE hypothesis of confidence 0 and errors holds
\* exactly one entry for a.
C4_FailureAsHypothesis ==
    \A a \in AgentIds :
        NonRetryableAlways(endpoint[a]) =>
            /\ pc = "done" =>
                 /\ a \in DOMAIN st.hypotheses
                 /\ st.hypotheses[a].status = "FAILURE"
                 /\ st.hypotheses[a].confidence = 0
                 /\ CountErrors(st.errors, a) = 1
                 /\ result.statusCode = 200
            /\ (\A b \in AgentIds \ {a} : endpoint[b] = Unassigned \/ Succeeds(endpoint[b]))
                 => pc # "error"

C4_Witness ==
    /\ pc = "done"
    /\ \E a \in AgentIds : NonRetryableAlways(endpoint[a])

\* C5: a slot that a checkpoint of the session holds is never replaced or
\* dropped by a later execution in the session (retry, resume included).
C5_SlotWrittenOnce ==
    [][ store # {} =>
          \A a \in DOMAIN Latest.state.hypotheses :
              /\ a \in DOMAIN Latest'.state.hypotheses
              /\ Latest'.state.hypotheses[a] = Latest.state.hypotheses[a] ]_vars

\* error codes the specification classifies as retryable
SpecRetryableCodes ==
    { "BEDROCK_THROTTLING", "DATA_SOURCE_UNAVAILABLE", "RATE_LIMIT_EXCEEDED", "TIMEOUT" }

\* C6: a failed attempt gives a retry signal exactly when its error code is
\* BEDROCK_THROTTLING, DATA_SOURCE_UNAVAILABLE, RATE_LIMIT_EXCEEDED or TIMEOUT
\* and the retry count is below MAX_RETRIES; every other failure gives a
\* failure hypothesis.
C6_RetryClassification ==
    st # Null =>
        \A i \in 1..Len(st.execution_trace) :
            LET e == st.execution_trace[i]
            IN  e.status \in {"RETRYING", "FAILED"} =>
                    ( e.status = "RETRYING"
                      <=> ( e.metadata.error_code \in SpecRetryableCodes
                            /\ e.metadata.retry_attempt < MAX_RETRIES ) )

\* C7: an endpoint throttled on its first k attempts (1 <= k <= MAX_RETRIES)
\* that then succeeds ends the run with k RETRYING entries, retry_count = k, a
\* SUCCESS output in the slot and no errors entry for the agent.
C7_ThrottledThenSuccess ==
    RunEnded =>
        \A a \in AgentIds :
            ( /\ endpoint[a].kind = "script"
              /\ endpoint[a].fails \in 1..MAX_RETRIES ) =>
                /\ CountTrace(st.execution_trace, a, "RETRYING") = endpoint[a].fails
                /\ Get(st.retry_count, a, 0) = endpoint[a].fails
                /\ a \in DOMAIN st.hypotheses
                /\ st.hypotheses[a].status = "SUCCESS"
                /\ CountErrors(st.errors, a) = 0

\* the endpoint answers every call in the same way
Deterministic(ep) == ep.kind = "script" /\ ep.fails \in {0, Forever}

RECURSIVE RefAgents(_, _)
RefAgents(state, i) ==
    IF i > Len(AgentSeq) THEN state
    ELSE RefAgents(agent_node(state, AgentSeq[i], TRUE,
                              ScriptOutcome(endpoint[AgentSeq[i]], 1)).state, i + 1)

\* the final state of one uninterrupted pass over the topology on the input
RefState ==
    LET now == CHOOSE t \in Times : TRUE
    IN  cost_guardian_node(consensus_node(
            RefAgents(entry_node(validate_event(event, now), now), 1)))

\* C8 (P8, resume transparency): a run interrupted by a crash and continued on
\* the same session ends with the consensus and the cost of the uninterrupted
\* run on the same input (the endpoints answering the same way).
C8_ResumeTransparent ==
    ( /\ pc = "done"
      /\ crashes > 0
      /\ \A a \in AgentIds : Deterministic(endpoint[a]) ) =>
        /\ ~validate_terminal_state_raises(RefState)
        /\ result.output.consensus = terminal_node(RefState).consensus
        /\ result.output.cost = terminal_node(RefState).cost

C8_Witness ==
    /\ pc = "done"
    /\ crashes > 0
    /\ invocations > 1
    /\ \A a \in AgentIds : Deterministic(endpoint[a])

\* C9: an invocation on a session that has a checkpoint continues at the first
\* node not yet completed: an agent whose result a checkpoint of the session
\* holds is not executed again, and the final trace of the interrupted and
\* resumed run has one COMPLETED entry per agent.
C9_NoDuplicateWork ==
    /\ (pc = "ready" /\ node <= Len(AgentSeq)) =>
           \A it \in store :
               NodeSeq[node] \notin DOMAIN pickle_loads(it.state_blob).state.hypotheses
    /\ (pc = "done" /\ crashes > 0 /\ \A a \in AgentIds : Succeeds(endpoint[a])) =>
           \A a \in AgentIds : CountTrace(st.execution_trace, a, "COMPLETED") = 1

IsPrefix(s, t) == Len(s) <= Len(t) /\ SubSeq(t, 1, Len(s)) = s

UnitDone(op) == pc = "unit-done" /\ result.op = op

\* the node_id sequence of an execution trace
NodeIds(trace) == [i \in 1..Len(trace) |-> trace[i].node_id]

\* the deterministic hashes of the hypotheses, in topology order
HashList(hypotheses) ==
    LET ks == HypKeys(hypotheses)
    IN  [i \in 1..Len(ks) |-> hypotheses[ks[i]].deterministicHash]

\* C11 (P1, replay determinism): two runs on the same input, the agents giving
\* the same responses, produce the same consensus, per-agent cost map, unified
\* recommendation, deterministic hashes and trace node sequence, whatever the
\* clock reads when each run starts.
C11_ReplayDeterminism ==
    (UnitDone("replay") /\ result.first.statusCode = 200) =>
        /\ result.second.statusCode = 200
        /\ result.second.output.consensus = result.first.output.consensus
        /\ result.second.output.cost.per_agent = result.first.output.cost.per_agent
        /\ result.second.output.recommendation.unified
             = result.first.output.recommendation.unified
        /\ HashList(result.second.state.hypotheses)
             = HashList(result.first.state.hypotheses)
        /\ NodeIds(result.second.state.execution_trace)
             = NodeIds(result.first.state.execution_trace)

\* the agent the unit action applied agent_node for
UnitAgent == AgentSeq[node]

SchemaViolationCall(call) ==
    /\ call.raises = "none"
    /\ call.response.guardrailAction # "BLOCKED"
    /\ call.response.text = "JSON"
    /\ ~(call.response.body.confidence \in 0..100)

\* C12: a response that parses as JSON but violates the output schema is never
\* retried: the slot of the agent becomes a failure hypothesis of confidence 0,
\* errors gains exactly one entry, with code SCHEMA_VALIDATION_FAILED and
\* retryable = false, and the slots of the other agents are unchanged.
C12_SchemaViolation ==
    ( /\ UnitDone("agent_node")
      /\ ~validate_agent_input_raises(st.agent_input)
      /\ SchemaViolationCall(result.call) ) =>
        LET out == result.out.state
        IN  /\ result.out.raised = "none"
            /\ CountTrace(out.execution_trace, UnitAgent, "RETRYING")
                 = CountTrace(st.execution_trace, UnitAgent, "RETRYING")
            /\ UnitAgent \in DOMAIN out.hypotheses
            /\ out.hypotheses[UnitAgent].status = "FAILURE"
            /\ out.hypotheses[UnitAgent].confidence = 0
            /\ Len(out.errors) = Len(st.errors) + 1
            /\ out.errors[Len(out.errors)].agent_id = UnitAgent
            /\ out.errors[Len(out.errors)].error_code = "SCHEMA_VALIDATION_FAILED"
            /\ out.errors[Len(out.errors)].retryable = FALSE
            /\ \A b \in AgentIds \ {UnitAgent} :
                   /\ (b \in DOMAIN out.hypotheses) = (b \in DOMAIN st.hypotheses)
                   /\ b \in DOMAIN st.hypotheses => out.hypotheses[b] = st.hypotheses[b]

\* the call, or the input, makes the attempt fail
FailingCall(agent_input, call) ==
    \/ validate_agent_input_raises(agent_input)
    \/ call.raises # "none"
    \/ call.response.guardrailAction = "BLOCKED"
    \/ call.response.text \in {"EMPTY", "NONJSON"}
    \/ SchemaViolationCall(call)

\* after is before plus a retry signal of the agent
RetrySignal(before, after, agent_id) ==
    /\ after.hypotheses = before.hypotheses
    /\ after.errors = before.errors
    /\ Get(after.retry_count, agent_id, 0) = Get(before.retry_count, agent_id, 0) + 1
    /\ after.execution_trace[Len(after.execution_trace)].node_id = agent_id
    /\ after.execution_trace[Len(after.execution_trace)].status = "RETRYING"

FailureState(after, agent_id) ==
    /\ agent_id \in DOMAIN after.hypotheses
    /\ after.hypotheses[agent_id].status = "FAILURE"
    /\ after.hypotheses[agent_id].confidence = 0

\* C13: a configured agent node never propagates an exception: on every failure
\* (input validation, transport error, guardrail block, empty or non-JSON
\* response, schema violation) it returns a retry signal or a state whose slot
\* for the agent is a failure hypothesis.
C13_NoExceptionEscapes ==
    UnitDone("agent_node") =>
        /\ result.out.raised = "none"
        /\ FailingCall(st.agent_input, result.call) =>
               \/ RetrySignal(st, result.out.state, UnitAgent)
               \/ FailureState(result.out.state, UnitAgent)

C13_Witness ==
    /\ UnitDone("agent_node")
    /\ result.call.raises = "ThrottlingException"
    /\ ~validate_agent_input_raises(st.agent_input)
    /\ RetrySignal(st, result.out.state, UnitAgent)

\* C14 (P3, monotonic budget): within a run budget_remaining is written only by
\* the cost guardian, to its previous value minus cost_guardian.total_cost;
\* every other node (agent nodes on the success, retry and failure paths,
\* consensus, terminal) returns the value it received, and the entry node sets
\* it to the budget of the input.
C14_BudgetWrittenOnce ==
    [][ /\ (pc = "ready" /\ pc' = "ran") =>
              IF NodeSeq[node] = "cost-guardian-node"
              THEN st'.budget_remaining
                     = st.budget_remaining - st'.cost_guardian.total_cost
              ELSE st'.budget_remaining = st.budget_remaining
        /\ (pc = "ran" /\ pc' \in {"ready", "done"}) =>
              st'.budget_remaining = st.budget_remaining
        /\ (pc \in {"idle", "rejected"} /\ pc' = "ready") =>
              st'.budget_remaining = event.budget_remaining ]_vars

C14_Witness ==
    /\ pc = "done"
    /\ crashes = 0
    /\ invocations = 1
    /\ st.cost_guardian.total_cost > 0
    /\ st.budget_remaining = event.budget_remaining - st.cost_guardian.total_cost
    /\ \E a \in AgentIds : st.hypotheses[a].status = "FAILURE"

AmpleBudget == 20 * DEFAULT_BUDGET

\* the invocation on the same event with an ample budget, the agents answering
\* as they answered their first call
AmpleRun ==
    handler([event EXCEPT !.budget_remaining = AmpleBudget],
            CHOOSE t \in Times : TRUE,
            [a \in AgentIds |-> ScriptOutcome(endpoint[a], 1)], "up")

\* the first invocation on the session has returned, every agent configured
FirstRunEnded ==
    /\ RunEnded
    /\ crashes = 0
    /\ invocations = 1
    /\ \A a \in AgentIds : endpoint[a] \notin {Unassigned, Unconfigured}

\* the run executed the nodes, and produced the hypotheses and the consensus,
\* of the run with an ample budget; it failed only if that run fails
SameAsAmple ==
    FirstRunEnded =>
        IF pc = "done"
        THEN /\ AmpleRun.statusCode = 200
             /\ st.hypotheses = AmpleRun.state.hypotheses
             /\ st.consensus = AmpleRun.state.consensus
             /\ NodeIds(st.execution_trace) = NodeIds(AmpleRun.state.execution_trace)
        ELSE AmpleRun.statusCode # 200

\* the four entry conditions on event.detail, as the specification words them
EntryConditions(detail) ==
    /\ detail.incident_id # "" /\ detail.incident_id \notin NonStrings
    /\ detail.evidence_bundle # EmptyMap /\ detail.evidence_bundle \notin NonObjects
    /\ detail.budget_remaining >= 0
    /\ detail.session_id # << >>

\* C15 as stated: budget_exceeded is a signal only; a run whose budget is
\* exceeded, or negative from the start, executes the same nodes in the same
\* order and produces the same hypotheses and consensus as a run with ample
\* budget; no node is skipped and the run is not aborted.
C15_BudgetSignalOnly_Stated ==
    /\ SameAsAmple
    /\ ( validate_event_raises(event) = "none"
         /\ EntryConditions(Put(event, "budget_remaining", 0)) ) => pc # "rejected"

\* C15 (amended): the same for a run whose budget is exceeded by its cost; an
\* event whose budget is negative from the start is rejected by the entry
\* validation (STATE_CREATION_FAILED) before any node runs.
C15_BudgetSignalOnly ==
    /\ SameAsAmple
    /\ (validate_event_raises(event) = "none" /\ EntryConditions(event))
           => pc # "rejected"
    /\ (validate_event_raises(event) = "none" /\ event.budget_remaining < 0)
           => /\ pc \in {"idle", "rejected"}
              /\ pc = "rejected" => result.error = "STATE_CREATION_FAILED"

C15_Witness ==
    /\ FirstRunEnded
    /\ pc = "done"
    /\ st.cost_guardian.budget_exceeded
    /\ st.cost_guardian.budget_remaining < 0

\* the sum of the estimated costs of the hypotheses of the agents in S
RECURSIVE CostSum(_, _)
CostSum(hypotheses, S) ==
    IF S = {} THEN 0
    ELSE LET a == CHOOSE x \in S : TRUE
         IN  hypotheses[a].cost.estimatedCost + CostSum(hypotheses, S \ {a})

\* C16 (P7, cost arithmetic): after the cost guardian, total_cost is the sum of
\* the per-agent costs over the six hypotheses, budget_remaining is the value
\* before minus total_cost, and budget_exceeded holds exactly when the value
\* before was negative or total_cost is greater than the value before.
C16_CostArithmetic ==
    UnitDone("cost_guardian_node") =>
        LET before == st.budget_remaining
            cg == result.out.cost_guardian
        IN  /\ DOMAIN st.hypotheses = AgentIds
            /\ cg.total_cost = CostSum(st.hypotheses, AgentIds)
            /\ cg.budget_remaining = before - cg.total_cost
            /\ result.out.budget_remaining = before - cg.total_cost
            /\ cg.budget_exceeded <=> (before < 0 \/ cg.total_cost > before)

C16_Witness ==
    /\ UnitDone("cost_guardian_node")
    /\ st.budget_remaining = 5500
    /\ result.out.cost_guardian.total_cost = 5850
    /\ result.out.cost_guardian.budget_exceeded
    /\ result.out.budget_remaining = 0 - 350

\* C17: every agent response that carries the BLOCKED guardrail flag delivers
\* one violation record for the agent to the violations store (the store being
\* available), with action BLOCK and the confidence of the response, 1.0 when
\* the response carries none.
C17_ViolationRecorded ==
    ( /\ UnitDone("agent_node")
      /\ ~validate_agent_input_raises(st.agent_input)
      /\ result.call.raises = "none"
      /\ result.call.response.guardrailAction = "BLOCKED"
      /\ result.call.observability = "up" ) =>
        /\ Len(result.out.violations) = 1
        /\ result.out.violations[1].agentId = UnitAgent
        /\ result.out.violations[1].violation.action = "BLOCK"
        /\ result.out.violations[1].violation.confidence
             = Get(result.call.response, "confidence", 100)

\* status and confidence of each hypothesis
StatusAndConfidence(hypotheses) ==
    [ a \in DOMAIN hypotheses |->
        [status |-> hypotheses[a].status, confidence |-> hypotheses[a].confidence] ]

\* C18 (P9, observability is non-blocking): with the trace emitter, the
\* guardrail violation logger and the metrics sink failing on every call, the
\* run completes as it does with observability working, and the deterministic
\* fields of its terminal output (status and confidence of the hypotheses,
\* consensus, per-agent cost, deterministic hashes, trace node sequence) are
\* the same.
C18_ObservabilityNonBlocking ==
    UnitDone("observability") =>
        /\ result.down.statusCode = result.up.statusCode
        /\ result.up.statusCode = 200 =>
             /\ StatusAndConfidence(result.down.output.agent_outputs)
                  = StatusAndConfidence(result.up.output.agent_outputs)
             /\ result.down.output.consensus = result.up.output.consensus
             /\ result.down.output.cost.per_agent = result.up.output.cost.per_agent
             /\ HashList(result.down.state.hypotheses)
                  = HashList(result.up.state.hypotheses)
             /\ NodeIds(result.down.state.execution_trace)
                  = NodeIds(result.up.state.execution_trace)

C18_Witness ==
    /\ UnitDone("observability")
    /\ result.call.raises = "none"
    /\ result.call.response.guardrailAction = "BLOCKED"
    /\ result.up.statusCode = 200
    /\ result.down.statusCode = 200
    /\ result.down.output.execution_summary.agents_succeeded = 5

\* position of a trace node_id in the fixed topology
TraceOrder ==
    << "ENTRY" >> \o AgentSeq \o << "consensus", "cost-guardian" >>

Rank(node_id) == CHOOSE i \in 1..Len(TraceOrder) : TraceOrder[i] = node_id

\* C19: the node_id sequence of execution_trace follows the topology ENTRY,
\* the six agents, consensus, cost-guardian: no entry of an earlier node comes
\* after an entry of a later node; the slots of hypotheses are written in the
\* same order, each by the run of its own node.
C19_TraceFollowsTopology ==
    st # Null =>
        /\ \A i \in 1..Len(st.execution_trace) :
               /\ st.execution_trace[i].node_id \in
                      {TraceOrder[k] : k \in 1..Len(TraceOrder)}
               /\ \A j \in 1..Len(st.execution_trace) :
                      i < j => Rank(st.execution_trace[i].node_id)
                                 <= Rank(st.execution_trace[j].node_id)
        /\ st.execution_trace[1].node_id = "ENTRY"
        /\ pc = "ready" =>
               DOMAIN st.hypotheses \subseteq
                   {AgentSeq[i] : i \in {k \in 1..Len(AgentSeq) : k < node}}
        /\ pc = "ran" =>
               DOMAIN st.hypotheses \subseteq
                   {AgentSeq[i] : i \in {k \in 1..Len(AgentSeq) : k <= node}}
        /\ \A a \in DOMAIN st.hypotheses :
               CountTrace(st.execution_trace, a, "COMPLETED")
                 + CountTrace(st.execution_trace, a, "FAILED") = 1

C19_Witness ==
    /\ pc = "done"
    /\ crashes > 0
    /\ NodeIds(st.execution_trace)[Len(st.execution_trace)] = "cost-guardian"
    /\ \E a \in AgentIds : CountTrace(st.execution_trace, a, "FAILED") = 1

ConcRef ==
    graph_invoke(entry_node(validate_event(event, 1), 1),
                 [a \in AgentIds |-> ConcCall(a)]).output

\* the latest checkpoint keeps every slot it holds
LatestKeepsSlots ==
    store # {} =>
        \A a \in DOMAIN Latest.state.hypotheses : a \in DOMAIN Latest'.state.hypotheses

\* an invoker that completes returns the content of the undisturbed run
CompletesWithRef ==
    \A i \in Invokers :
        pc'[i] = "done" =>
            /\ result'[i].statusCode = 200
            /\ result'[i].output.consensus = ConcRef.consensus
            /\ result'[i].output.cost = ConcRef.cost
            /\ result'[i].output.agent_outputs = ConcRef.agent_outputs

\* C21: two invokers run or resume concurrently on one session_id; under every
\* interleaving of their checkpoint writes each of them completes with the
\* same terminal content, and no write makes the latest checkpoint lose a slot
\* that it already held.
C21_ConcurrentConverge == [][ LatestKeepsSlots /\ CompletesWithRef ]_vars

\* the output the node wrote into the slot of its agent
SlotOf(out) == out.state.hypotheses[UnitAgent]

SuccessOutput(out) ==
    /\ UnitAgent \in DOMAIN out.state.hypotheses
    /\ SlotOf(out).status = "SUCCESS"

\* C22: the deterministic hash of a successful output is a function of exactly
\* incident_id, evidence_bundle, execution_id, findings and the confidence
\* rounded to 4 decimals: two outputs have equal hashes exactly when they agree
\* on these, whatever their timestamp, session_id, reasoning, disclaimer,
\* citations, cost, retry count and the confidence below the fourth decimal.
C22_HashWhitelist ==
    ( /\ UnitDone("hash")
      /\ SuccessOutput(result.first)
      /\ SuccessOutput(result.second) ) =>
        ( SlotOf(result.first).deterministicHash = SlotOf(result.second).deterministicHash
          <=> result.changed \cap IncludedFields = {} )

C22_Witness ==
    /\ UnitDone("hash")
    /\ SuccessOutput(result.first)
    /\ SuccessOutput(result.second)
    /\ result.changed = ExcludedFields
    /\ SlotOf(result.first).cost # SlotOf(result.second).cost
    /\ SlotOf(result.first).citations # SlotOf(result.second).citations
    /\ result.first.state.agent_input.session_id # result.second.state.agent_input.session_id
    /\ SlotOf(result.first).deterministicHash = SlotOf(result.second).deterministicHash

\* the identifiers of a run that the handler fills in when the input omits them
FilledIds(state) ==
    [ execution_id |-> state.agent_input.execution_id,
      session_id   |-> state.agent_input.session_id,
      timestamp    |-> state.agent_input.timestamp ]

\* C23: when the input omits execution_id, session_id or timestamp, the values
\* filled in are determined by the input alone (two invocations on the same
\* input fill in the same values), and they stay fixed for the rest of the run:
\* every output of the run carries the execution_id filled in at entry.
C23_FilledIdsDeterministic ==
    ( /\ UnitDone("replay")
      /\ result.first.statusCode = 200
      /\ result.second.statusCode = 200 ) =>
        /\ FilledIds(result.first.state) = FilledIds(result.second.state)
        /\ \A a \in DOMAIN result.first.state.hypotheses :
               result.first.state.hypotheses[a].execution_id
                   = result.first.state.agent_input.execution_id

\* the GraphState of every checkpoint of the session and of every invoker
SessionStates ==
    { pickle_loads(it.state_blob).state : it \in store }
    \cup { st[i] : i \in { j \in Invokers : st[j] # Null } }

\* C24: agent_input is identical in every state of a run: no node execution,
\* checkpoint round trip, resume or further invocation under the same
\* session_id produces a state whose agent_input differs from the one created
\* at entry.
C24_AgentInputFixed ==
    \A s1 \in SessionStates : \A s2 \in SessionStates : s1.agent_input = s2.agent_input

\* consensus-node and cost-guardian-node have each left at most one COMPLETED
\* entry in the trace, and a cost record in the trace was subtracted once
NodesCompletedOnce(state) ==
    /\ CountTrace(state.execution_trace, "consensus", "COMPLETED") <= 1
    /\ CountTrace(state.execution_trace, "cost-guardian", "COMPLETED") <= 1
    /\ CountTrace(state.execution_trace, "cost-guardian", "COMPLETED") = 1 =>
           state.budget_remaining
               = event.budget_remaining - state.cost_guardian.total_cost

\* a consensus or cost record the latest checkpoint holds is not set again
RecordsSetOnce ==
    store # {} =>
        /\ Latest.state.consensus # Null =>
               Latest'.state.consensus = Latest.state.consensus
        /\ Latest.state.cost_guardian # Null =>
               Latest'.state.cost_guardian = Latest.state.cost_guardian

\* C25: within a run, crash and resume included, consensus and cost_guardian
\* are each set at most once: the consensus node and the cost guardian node
\* each complete at most once, and total_cost is subtracted from
\* budget_remaining once.
C25_ConsensusAndCostOnce ==
    [][ /\ RecordsSetOnce
        /\ st' # Null => NodesCompletedOnce(st')
        /\ store' # {} => NodesCompletedOnce(Latest'.state) ]_vars

\* the confidences of the hypotheses
Confidences(hypotheses) == { hypotheses[a].confidence : a \in DOMAIN hypotheses }

\* C26 (P6, consensus arithmetic): for every set of agent outputs,
\* aggregated_confidence and agreement_level lie in [0,1]; agreement_level is
\* 1.0 for a single output and for outputs of equal confidence, and 0.0 for
\* two outputs with the confidences 0.0 and 1.0.
C26_ConsensusArithmetic ==
    UnitDone("arithmetic") =>
        /\ result.aggregated_confidence.den > 0
        /\ result.aggregated_confidence.num >= 0
        /\ result.aggregated_confidence.num <= 100 * result.aggregated_confidence.den
        /\ result.agreement_level >= 0
        /\ result.agreement_level <= 1000
        /\ Cardinality(DOMAIN result.hypotheses) = 1 => result.agreement_level = 1000
        /\ Cardinality(Confidences(result.hypotheses)) = 1 => result.agreement_level = 1000
        /\ ( /\ Cardinality(DOMAIN result.hypotheses) = 2
             /\ Confidences(result.hypotheses) = {0, 100} ) => result.agreement_level = 0

AllFailed(hypotheses) ==
    /\ DOMAIN hypotheses = AgentIds
    /\ \A a \in AgentIds : hypotheses[a].status = "FAILURE"

\* the sum of the weights of the agents that have an output
WeightSum(hypotheses) ==
    LET ks == HypKeys(hypotheses)
    IN  SumSeq([i \in 1..Len(ks) |-> AGENT_WEIGHTS[ks[i]]])

\* C27: when every agent slot is a failure hypothesis the consensus is still
\* produced, with aggregated_confidence = 0.0 and the unified recommendation
\* "Insufficient data for recommendation. All agents failed."; failed outputs
\* stay in the denominator of the weighted average.
C27_AllFailedConsensus ==
    /\ ( UnitDone("consensus_node") /\ AllFailed(st.hypotheses) ) =>
           /\ result.out.consensus # Null
           /\ result.out.consensus.aggregated_confidence.num = 0
           /\ result.out.consensus.aggregated_confidence.den = WeightSum(st.hypotheses)
           /\ result.out.consensus.unified_recommendation
                = << [text |-> "Insufficient data for recommendation. All agents failed."] >>
    /\ ( UnitDone("arithmetic") /\ result.hypotheses # EmptyMap ) =>
           result.aggregated_confidence.den = WeightSum(result.hypotheses)

C27_Witness ==
    /\ UnitDone("consensus_node")
    /\ AllFailed(st.hypotheses)
    /\ result.out.consensus.aggregated_confidence = [num |-> 0, den |-> 49]

\* p <= q for the rationals p and q
RatLeq(p, q) == p.num * q.den <= q.num * p.den

\* C28: replacing the successful output of any agent by a failure hypothesis
\* (confidence 0.0), the other outputs unchanged, never increases
\* aggregated_confidence.
C28_FailureNeverRaisesConfidence ==
    UnitDone("arithmetic") =>
        \A a \in DOMAIN result.degraded :
            RatLeq(result.degraded[a], result.aggregated_confidence)

C28_Witness ==
    /\ UnitDone("arithmetic")
    /\ Cardinality(DOMAIN result.degraded) >= 2
    /\ \E a \in DOMAIN result.hypotheses : result.hypotheses[a].status = "FAILURE"
    /\ \A a \in DOMAIN result.degraded :
           ~RatLeq(result.aggregated_confidence, result.degraded[a])

\* the agent_node invocation recorded in result ended with a SUCCESS output
EndsWithSuccess ==
    /\ UnitDone("agent_node")
    /\ result.out.raised = "none"
    /\ AgentSeq[node] \in DOMAIN result.out.state.hypotheses
    /\ result.out.state.hypotheses[AgentSeq[node]].status = "SUCCESS"

\* C29: every agent invocation that ends with a SUCCESS output emits exactly
\* one LLM trace event to the trace stream when the stream is available, for
\* any token counts the transport reports, zero input and output tokens
\* included.
C29_SuccessEmitsOneTrace ==
    ( EndsWithSuccess /\ result.call.observability = "up" ) =>
        /\ Len(result.out.traces) = 1
        /\ result.out.traces[1].agentId = AgentSeq[node]

\* text holds item as a contiguous part
Contains(text, item) ==
    \E i \in 1..(Len(text) - Len(item) + 1) : SubSeq(text, i, i + Len(item) - 1) = item

\* the free-text fields of the stored trace record and violation record
StoredTexts ==
    { result.trace.prompt.text, result.trace.response.text,
      result.violation.content.input, result.violation.content.output,
      result.violation.content.detectedText, result.violation.response.message }

\* C30: every trace record and every violation record is redacted before it is
\* written to a store: no email address, phone number, SSN, 12-digit account
\* id, AWS key pattern or IPv4 address from the original prompt or response
\* appears in any free-text field of a stored record.
C30_StoredRecordsRedacted ==
    UnitDone("redaction") =>
        \A text \in StoredTexts : ~Contains(text, result.pii)

LastError == result.out.state.errors[Len(result.out.state.errors)]

\* C32: when the agent input fails validation, no retry is signalled and the
\* slot becomes a failure hypothesis whose errors entry has code INVALID_INPUT
\* and retryable = false.
C32_InvalidInputCode ==
    ( UnitDone("agent_node") /\ validate_agent_input_raises(st.agent_input) ) =>
        /\ result.out.raised = "none"
        /\ result.out.state.retry_count = st.retry_count
        /\ UnitAgent \in DOMAIN result.out.state.hypotheses
        /\ result.out.state.hypotheses[UnitAgent].status = "FAILURE"
        /\ Len(result.out.state.errors) = Len(st.errors) + 1
        /\ LastError.agent_id = UnitAgent
        /\ LastError.retryable = FALSE
        /\ LastError.error_code = "INVALID_INPUT"

\* the attempt recorded in result failed before a remote response was received
FailedBeforeResponse ==
    validate_agent_input_raises(st.agent_input) \/ result.call.raises # "none"

\* the slot the recorded call of agent_node filled is a failure hypothesis
FilledByFailure ==
    /\ UnitDone("agent_node")
    /\ result.out.raised = "none"
    /\ Len(result.out.state.errors) = Len(st.errors) + 1
    /\ UnitAgent \in DOMAIN result.out.state.hypotheses

\* C33: a failure hypothesis carries zero cost (0 input tokens, 0 output
\* tokens, cost 0.0) when the attempt failed before any remote response was
\* received, and the cost computed from the transport-reported token counts
\* when it failed after the response was received; that cost is included in
\* the cost guardian's total_cost.
C33_FailureCost ==
    /\ FilledByFailure =>
          /\ result.out.state.hypotheses[UnitAgent].status = "FAILURE"
          /\ result.out.state.hypotheses[UnitAgent].cost =
                IF FailedBeforeResponse
                THEN [inputTokens |-> 0, outputTokens |-> 0, estimatedCost |-> 0,
                      model |-> "N/A"]
                ELSE [inputTokens |-> result.call.response.inputTokens,
                      outputTokens |-> result.call.response.outputTokens,
                      estimatedCost |-> result.call.response.inputTokens * PRICE_INPUT
                                        + result.call.response.outputTokens * PRICE_OUTPUT,
                      model |-> result.call.response.modelId]
    /\ UnitDone("cost_guardian_node") =>
          /\ DOMAIN result.out.cost_guardian.per_agent_cost = DOMAIN st.hypotheses
          /\ \A a \in DOMAIN st.hypotheses :
                 result.out.cost_guardian.per_agent_cost[a].cost
                   = st.hypotheses[a].cost.estimatedCost
          /\ result.out.cost_guardian.total_cost
               = SumSeq([i \in 1..Len(AgentSeq) |->
                           IF AgentSeq[i] \in DOMAIN st.hypotheses
                           THEN st.hypotheses[AgentSeq[i]].cost.estimatedCost ELSE 0])

C33_Witness ==
    /\ FilledByFailure
    /\ ~FailedBeforeResponse
    /\ result.call.response.guardrailAction = "BLOCKED"
    /\ result.out.state.hypotheses[UnitAgent].cost.estimatedCost = 10 * PRICE_INPUT

\* C34: an invocation whose input has an empty or non-string incident_id, an
\* empty or non-object evidence_bundle, a negative budget_remaining or an
\* empty session_id is rejected before any checkpoint is written and before
\* any agent is invoked; every input that satisfies all four conditions is
\* accepted.
C34_EntryValidation ==
    [][ ( HandlerRejectEvent \/ HandlerRejectState \/ HandlerStart ) =>
          IF EntryConditions(event)
          THEN pc' = "ready" /\ st' # Null /\ store' # store
          ELSE /\ pc' = "rejected"
               /\ result'.statusCode \in {400, 500}
               /\ store' = store
               /\ calls' = calls
               /\ st' = Null ]_vars

C34_Witness ==
    /\ pc = "rejected"
    /\ event.incident_id \in NonStrings
    /\ result = [statusCode |-> 500, error |-> "STATE_CREATION_FAILED"]
    /\ store = {}
    /\ invocations = 1

\* C35: every call of an agent node that returns appends exactly two entries
\* for its own node_id to execution_trace: a STARTED entry whose retry_attempt
\* equals retry_count[agent] at the time of the call, followed by exactly one
\* of COMPLETED, RETRYING or FAILED; all entries already in the trace stay
\* unchanged and in the same order.
C35_TwoTraceEntriesPerCall ==
    ( UnitDone("agent_node") /\ result.out.raised = "none" ) =>
        LET before == st.execution_trace
            after == result.out.state.execution_trace
        IN  /\ Len(after) = Len(before) + 2
            /\ SubSeq(after, 1, Len(before)) = before
            /\ after[Len(before) + 1].node_id = UnitAgent
            /\ after[Len(before) + 1].status = "STARTED"
            /\ after[Len(before) + 1].metadata
                 = [retry_attempt |-> Get(st.retry_count, UnitAgent, 0)]
            /\ after[Len(before) + 2].node_id = UnitAgent
            /\ after[Len(before) + 2].status \in {"COMPLETED", "RETRYING", "FAILED"}

C35_Witness ==
    /\ UnitDone("agent_node")
    /\ result.out.raised = "none"
    /\ Get(st.retry_count, UnitAgent, 0) = 1
    /\ Len(st.execution_trace) >= 3
    /\ result.out.state.execution_trace[Len(st.execution_trace) + 1].metadata
         = [retry_attempt |-> 1]
    /\ result.out.state.execution_trace[Len(st.execution_trace) + 2].status = "RETRYING"

\* the recorded call of agent_node returned a retry signal
RetryReturned ==
    /\ UnitDone("agent_node")
    /\ result.out.raised = "none"
    /\ result.out.state.execution_trace[Len(result.out.state.execution_trace)].status
         = "RETRYING"

\* C36: a retry-signal return changes only execution_trace (STARTED and
\* RETRYING appended) and retry_count[agent] (incremented by exactly 1):
\* hypotheses, errors, budget_remaining, consensus, cost_guardian, agent_input
\* and every other agent's retry count are those of the state the node
\* received.
C36_RetryFrame ==
    RetryReturned =>
        /\ result.out.state.retry_count
             = Put(st.retry_count, UnitAgent, Get(st.retry_count, UnitAgent, 0) + 1)
        /\ [result.out.state EXCEPT !.execution_trace = << >>, !.retry_count = EmptyMap]
             = [st EXCEPT !.execution_trace = << >>, !.retry_count = EmptyMap]
        /\ Len(result.out.state.execution_trace) = Len(st.execution_trace) + 2
        /\ SubSeq(result.out.state.execution_trace, 1, Len(st.execution_trace))
             = st.execution_trace
        /\ result.out.state.execution_trace[Len(st.execution_trace) + 1].status = "STARTED"

C36_Witness ==
    /\ RetryReturned
    /\ node = 2
    /\ st.retry_count = [a \in AgentIds |-> 1]
    /\ result.out.state.retry_count = [a \in AgentIds |-> IF a = UnitAgent THEN 2 ELSE 1]
    /\ DOMAIN st.hypotheses = {AgentSeq[1]}
    /\ result.out.state.hypotheses = st.hypotheses

\* the agents with an entry in errors
ErrorAgents(state) == { state.errors[i].agent_id : i \in 1..Len(state.errors) }

\* the agents whose slot holds a failure hypothesis
FailureSlots(state) ==
    { a \in DOMAIN state.hypotheses :
        state.hypotheses[a].deterministicHash = << "FAILURE" >> }

\* C37: at every point of a run, errors contains exactly one entry for each
\* agent whose slot was filled by the failure path and none for any other
\* agent: the number of errors entries equals the number of FAILED trace
\* entries, each entry's agent has hypotheses[agent] with status FAILURE,
\* confidence 0.0 and deterministic hash "FAILURE", and a retry signal never
\* adds an errors entry.
C37_ErrorsMatchFailures ==
    st # Null =>
        /\ ErrorAgents(st) = FailureSlots(st)
        /\ Len(st.errors) = Cardinality(ErrorAgents(st))
        /\ Len(st.errors)
             = Cardinality({ i \in 1..Len(st.execution_trace) :
                               st.execution_trace[i].status = "FAILED" })
        /\ \A a \in ErrorAgents(st) :
               /\ st.hypotheses[a].status = "FAILURE"
               /\ st.hypotheses[a].confidence = 0
        /\ Len(st.errors) + Cardinality({ i \in 1..Len(st.execution_trace) :
                                            st.execution_trace[i].status = "COMPLETED"
                                            /\ st.execution_trace[i].node_id \in AgentIds })
             = Cardinality(DOMAIN st.hypotheses)

C37_Witness ==
    /\ st # Null
    /\ pc = "done"
    /\ Len(st.errors) = 1
    /\ FailureSlots(st) = { st.errors[1].agent_id }
    /\ Cardinality(DOMAIN st.hypotheses) = Cardinality(AgentIds)

\* C38: in any run retry_count[agent] never exceeds MAX_RETRIES, so each
\* agent's remote endpoint is called at most MAX_RETRIES + 1 times, and every
\* agent slot reaches completed or failed after finitely many attempts: a run
\* with every endpoint configured does not end with an empty slot.
C38_RetryTermination ==
    st # Null =>
        /\ \A a \in AgentIds :
               /\ Get(st.retry_count, a, 0) <= MAX_RETRIES
               /\ CountTrace(st.execution_trace, a, "STARTED") <= MAX_RETRIES + 1
        /\ ( RunEnded /\ AllConfigured ) =>
               \A a \in AgentIds : a \in DOMAIN st.hypotheses

\* C39: a failure to read or deserialize the latest checkpoint of a session
\* that has checkpoints is never treated as "no checkpoint exists": what
\* get_tuple gives the driver differs from what it gives for a session without
\* checkpoints.
C39_ReadFailureIsNotAbsence ==
    ( UnitDone("load") /\ result.items # {} /\ result.read # "ok" ) =>
        result.loaded # get_tuple_read({}, "ok")

====
